---- MODULE Spec2Model ----
(***************************************************************************)
(* Model of the pyueransim protocol engine: the timer subsystem             *)
(* (core/__init__.py), the RRC state machine (core/rrc.py), the UE entity   *)
(* and the gNB entity (simulation/__init__.py, core/ngap.py).               *)
(***************************************************************************)
EXTENDS Integers, Sequences, FiniteSets, TLC

\* ------------------------------------------------------------------------
\* Bounds of the model
\* ------------------------------------------------------------------------
MaxAlloc == 3       \* Timer objects constructed over one manager's lifetime
MaxTime == 1        \* the clock runs over 0..MaxTime
MaxTrace == 3       \* RRC messages delivered in one run
MaxSessions == 2    \* PDU session records one UE accumulates
MaxAttempts == 2    \* get_state() calls counted on one UE
MaxStarts == 2      \* start() calls made on one gNB
MaxMsgs == 3        \* messages one gNB counts as exchanged
MaxReads == 3       \* recv() calls made by one NgapTask's receive loops
MaxSends == 2       \* messages one NgapTask gets through to the AMF
MaxTasks == 3       \* handler invocations made on one UE
MaxPayload == 2     \* bytes in the payload of a message put through a codec

\* ------------------------------------------------------------------------
\* Time and the optional timestamp
\* ------------------------------------------------------------------------
\* datetime.min, the timestamp expire() writes: far before any clock value
DateMin == -100

\* Optional values: None is the empty tuple, Some(x) a one-element tuple
None == <<>>
Some(x) == <<x>>

\* a timeout longer than the time elapsed since datetime.min
FarTimeout == MaxTime - DateMin + 1
TimeoutSet == {1, FarTimeout}

TimerIds == 1..MaxAlloc

VARIABLES
    \* TimerManager
    timers,         \* Dict[int, Timer]: id -> [uid, timeout, started_at, op];
                    \* op is history: the last operation on that timer
    next_id,        \* TimerManager.next_id
    now,            \* datetime.now()
    t_call,         \* the last TimerManager call, its argument and its result
    next_uid,       \* identity of the next Timer object to be constructed
    delivered,      \* history: Timer objects returned by check_expired so far
    alloc_ids,      \* history: the ids returned by allocate, in call order
    clear_mark,     \* history: Len(alloc_ids) at the last clear()
    pending,        \* history: Timer objects expire()d, not stopped or
                    \* started since, with no check_expired call yet
    \* RrcStateMachine
    sm_state,       \* RrcStateMachine.state
    sm_in,          \* the last message handed to handle_message
    sm_resp,        \* the value handle_message returned for it
    sm_hist,        \* history: the message types handled so far
    \* UeSimulation
    ue_imsi,        \* UeConfig.imsi, as its groups of three digits
    ue_dnn,         \* UeConfig.dnn, as its ASCII bytes
    on_rrc_message, \* UeSimulation.on_rrc_message is set
    on_nas_message, \* UeSimulation.on_nas_message is set
    mm_state,       \* UeSimulation.mm_state
    mm_substate,    \* UeSimulation.mm_substate
    rrc_state,      \* UeSimulation.rrc_state
    cm_state,       \* UeSimulation.cm_state
    sm_state_ue,    \* UeSimulation.sm_state
    connected_gnb_id, \* UeSimulation.connected_gnb_id
    pdu_sessions,   \* UeSimulation.state.pdu_sessions
    registration_attempts, \* UeSimulation.state.registration_attempts
    last_registration_time, \* UeSimulation.state.last_registration_time
    ue_snapshot,    \* the state names UeSimulation.state holds
    ue_call,        \* the last UeSimulation call and its outcome
    rrc_sent,       \* what the last call passed to on_rrc_message
    nas_sent,       \* what the last call passed to on_nas_message
    idle_since,     \* history: how the UE came to its RRC state: "init",
                    \* "connected", "release" (idle through a RELEASE),
                    \* "release_start" (the same, and registration was
                    \* started again since)
    ue_hist,        \* history: per delivered message, the type of the
                    \* response of RrcStateMachine and of UeSimulation
    \* GnbSimulation
    gnb_state,      \* GnbSimulation.gnb_state
    ngap_state,     \* GnbSimulation.ngap_state
    amf_connected,  \* GnbSimulation.amf_connected
    gnb_snapshot,   \* GnbSimulation.state, the GnbState object
    ngap_connection, \* GnbSimulation.ngap_connection: None or the
                    \* NgapConnection [connected, sctp_socket]
    ues,            \* GnbSimulation.ues: ue_id -> UeSimulation object
    metrics,        \* GnbSimulation.metrics
    gnb_pc,         \* the position of the running start() call, else "idle"
    recv_tasks,     \* the tasks created for ngap_receive_loop, in order
    amf_received,   \* history: per message the AMF received, the number
                    \* of the start() call that sent it
    starts,         \* history: the number of start() calls made
    last_connect,   \* history: the outcome of the last connect()
    gnb_call,       \* the last GnbSimulation call and its outcome
    \* NgapTask and its NgapConnection
    nt_state,       \* NgapTask.state
    nt_pc,          \* the position of the running start() or stop() call,
                    \* else "idle"
    nt_conn,        \* NgapTask.connection: [connected, sctp_socket]
    nt_tasks,       \* the tasks created for NgapConnection.receive_loop, in
                    \* order; NgapTask.receive_task is the last one
    nt_on_message,  \* NgapConnection.on_message is set
    nt_reads,       \* history: what each recv() of the loop returned
    nt_got,         \* history: the data passed to on_message, in order
    nt_wire,        \* history: the messages the AMF received
    nt_call,        \* the last NgapTask call and its outcome
    \* the event loop running the callers of one UE's handlers
    h_tasks,        \* per handler invocation <<handler, data, position>>
    h_running,      \* the invocation the event loop is executing, else 0
    \* the management server (server/__init__.py)
    srv_gnb,        \* the global gnb_simulation is not None; the gNB
                    \* variables then hold that GnbSimulation object
    srv_pc,         \* the endpoint awaiting start() or stop(), else "idle"
    srv_call,       \* the last endpoint call, its ue_id and its result
    \* one message taken through a codec (core/rrc.py, core/nas.py)
    cd_layer,       \* "rrc": RrcMessage, "nas": NasMessage, "sec": a
                    \* NasMessage through NasSecurity
    cd_msg,         \* the message object handed to encode
    cd_wire,        \* the bytes encode returned, once it has
    cd_out,         \* what decode made of them, once it has
    \* NasSecurity (core/nas.py) and its NasSecurityContext
    sec_ctx,        \* the NasSecurityContext: [count, bearer, direction]
    sec_alg,        \* <<algorithm_type, algorithm_id>> given to encode
    sec_calls,      \* history: the encode_nas_message and
                    \* decode_nas_message calls that have returned
    \* RrcTask (core/rrc.py)
    ue_connections, \* RrcTask.ue_connections: ue_id -> RrcStateMachine
    rt_call         \* the last RrcTask call, its arguments and its result

timerVars == <<timers, next_id, now, t_call, next_uid, delivered, alloc_ids,
               clear_mark, pending>>

smVars == <<sm_state, sm_in, sm_resp, sm_hist>>

ueVars == <<ue_imsi, ue_dnn, on_rrc_message, on_nas_message, mm_state,
            mm_substate, rrc_state, cm_state, sm_state_ue, connected_gnb_id,
            pdu_sessions, registration_attempts, last_registration_time,
            ue_snapshot, ue_call, rrc_sent, nas_sent, idle_since>>

gnbVars == <<gnb_state, ngap_state, amf_connected, gnb_snapshot,
             ngap_connection, ues, metrics, gnb_pc, recv_tasks, amf_received,
             starts, last_connect, gnb_call>>

ngapVars == <<nt_state, nt_pc, nt_conn, nt_tasks, nt_on_message, nt_reads,
              nt_got, nt_wire, nt_call>>

loopVars == <<h_tasks, h_running>>

srvVars == <<srv_gnb, srv_pc, srv_call>>

codecVars == <<cd_layer, cd_msg, cd_wire, cd_out>>

secVars == <<sec_ctx, sec_alg, sec_calls>>

rtVars == <<ue_connections, rt_call>>

vars == <<timerVars, smVars, ueVars, ue_hist, gnbVars, ngapVars, loopVars,
          srvVars, codecVars, secVars, rtVars>>

\* ------------------------------------------------------------------------
\* Timer (core/__init__.py)
\* ------------------------------------------------------------------------
NewTimer(uid, timeout) ==
    [uid |-> uid, timeout |-> timeout, started_at |-> None, op |-> "allocate"]

TimerIsRunning(t) == t.started_at # None

TimerIsExpired(t, clock) ==
    IF t.started_at = None
    THEN FALSE
    ELSE (clock - t.started_at[1]) >= t.timeout

TimerStart(t, clock) == [t EXCEPT !.started_at = Some(clock), !.op = "start"]

TimerStop_keep(t) == [t EXCEPT !.op = "stop"]
TimerStop(t) == [t EXCEPT !.started_at = None, !.op = "stop"]

\* ------------------------------------------------------------------------
\* TimerManager (core/__init__.py)
\* ------------------------------------------------------------------------
Get(id) == IF id \in DOMAIN timers THEN Some(timers[id]) ELSE None

Running == {id \in DOMAIN timers : TimerIsRunning(timers[id])}

ExpiredIds(ts, clock) == {id \in DOMAIN ts : TimerIsExpired(ts[id], clock)}

RemoveIds_keep(ts, ids) == ts
RemoveIds(ts, ids) == [id \in (DOMAIN ts) \ ids |-> ts[id]]

Put(ts, id, t) == [i \in (DOMAIN ts) \cup {id} |-> IF i = id THEN t ELSE ts[i]]

NextIdAfterAllocate_same(n) == n
NextIdAfterAllocate(n) == n + 1

NextIdAfterClear_keep(n) == n
NextIdAfterClear(n) == 1

StartResult_always(ts, id) == TRUE
StartResult(ts, id) == id \in DOMAIN ts

StopResult(ts, id) == id \in DOMAIN ts

ExpireTimers_running(ts, id) ==
    IF id \in DOMAIN ts
    THEN IF TimerIsRunning(ts[id])
         THEN [ts EXCEPT ![id].started_at = Some(DateMin), ![id].op = "expire"]
         ELSE [ts EXCEPT ![id].op = "expire"]
    ELSE ts
ExpireTimers(ts, id) ==
    IF id \in DOMAIN ts
    THEN [ts EXCEPT ![id].started_at = Some(DateMin), ![id].op = "expire"]
    ELSE ts

Call(op, id, ret, returned) ==
    [op |-> op, id |-> id, ret |-> ret, returned |-> returned]

UidOf(id) == timers[id].uid

TimerInit ==
    /\ timers = << >>
    /\ next_id = 1
    /\ now = 0
    /\ t_call = Call("init", 0, FALSE, {})
    /\ next_uid = 1
    /\ delivered = {}
    /\ alloc_ids = << >>
    /\ clear_mark = 0
    /\ pending = {}

\* time passes between two calls
Tick ==
    /\ now < MaxTime
    /\ now' = now + 1
    /\ UNCHANGED <<timers, next_id, t_call, next_uid, delivered, alloc_ids,
                   clear_mark, pending>>
    /\ UNCHANGED <<smVars, ueVars, ue_hist, gnbVars, ngapVars, loopVars, srvVars,
                 codecVars, secVars, rtVars>>

Allocate(timeout) ==
    /\ next_uid <= MaxAlloc
    /\ timers' = Put(timers, next_id, NewTimer(next_uid, timeout))
    /\ next_id' = NextIdAfterAllocate(next_id)
    /\ t_call' = Call("allocate", next_id, TRUE, {})
    /\ next_uid' = next_uid + 1
    /\ alloc_ids' = Append(alloc_ids, next_id)
    /\ UNCHANGED <<now, delivered, clear_mark, pending>>
    /\ UNCHANGED <<smVars, ueVars, ue_hist, gnbVars, ngapVars, loopVars, srvVars,
                 codecVars, secVars, rtVars>>

Start(id) ==
    /\ timers' = IF id \in DOMAIN timers
                 THEN [timers EXCEPT ![id] = TimerStart(@, now)]
                 ELSE timers
    /\ t_call' = Call("start", id, StartResult(timers, id), {})
    /\ pending' = IF id \in DOMAIN timers THEN pending \ {UidOf(id)} ELSE pending
    /\ UNCHANGED <<next_id, now, next_uid, delivered, alloc_ids, clear_mark>>
    /\ UNCHANGED <<smVars, ueVars, ue_hist, gnbVars, ngapVars, loopVars, srvVars,
                 codecVars, secVars, rtVars>>

Stop(id) ==
    /\ timers' = IF id \in DOMAIN timers
                 THEN [timers EXCEPT ![id] = TimerStop(@)]
                 ELSE timers
    /\ t_call' = Call("stop", id, StopResult(timers, id), {})
    /\ pending' = IF id \in DOMAIN timers THEN pending \ {UidOf(id)} ELSE pending
    /\ UNCHANGED <<next_id, now, next_uid, delivered, alloc_ids, clear_mark>>
    /\ UNCHANGED <<smVars, ueVars, ue_hist, gnbVars, ngapVars, loopVars, srvVars,
                 codecVars, secVars, rtVars>>

Expire(id) ==
    /\ timers' = ExpireTimers(timers, id)
    /\ t_call' = Call("expire", id, id \in DOMAIN timers, {})
    /\ pending' = IF id \in DOMAIN timers THEN pending \cup {UidOf(id)} ELSE pending
    /\ UNCHANGED <<next_id, now, next_uid, delivered, alloc_ids, clear_mark>>
    /\ UNCHANGED <<smVars, ueVars, ue_hist, gnbVars, ngapVars, loopVars, srvVars,
                 codecVars, secVars, rtVars>>

CheckExpired ==
    LET ids == ExpiredIds(timers, now)
        returned == {[id |-> id, uid |-> UidOf(id), op |-> timers[id].op] : id \in ids}
    IN  /\ timers' = RemoveIds(timers, ids)
        /\ t_call' = Call("check_expired", 0, TRUE, returned)
        /\ delivered' = delivered \cup {r.uid : r \in returned}
        /\ pending' = {}
        /\ UNCHANGED <<next_id, now, next_uid, alloc_ids, clear_mark>>
        /\ UNCHANGED <<smVars, ueVars, ue_hist, gnbVars, ngapVars, loopVars, srvVars,
                 codecVars, secVars, rtVars>>

Clear ==
    /\ timers' = << >>
    /\ next_id' = NextIdAfterClear(next_id)
    /\ t_call' = Call("clear", 0, TRUE, {})
    /\ clear_mark' = Len(alloc_ids)
    /\ UNCHANGED <<now, next_uid, delivered, alloc_ids, pending>>
    /\ UNCHANGED <<smVars, ueVars, ue_hist, gnbVars, ngapVars, loopVars, srvVars,
                 codecVars, secVars, rtVars>>

TimerNext ==
    \/ Tick
    \/ \E timeout \in TimeoutSet : Allocate(timeout)
    \/ \E id \in TimerIds : Start(id)
    \/ \E id \in TimerIds : Stop(id)
    \/ \E id \in TimerIds : Expire(id)
    \/ CheckExpired
    \/ Clear

\* ------------------------------------------------------------------------
\* RRC message types and the RrcMessage container (core/rrc.py)
\* ------------------------------------------------------------------------
RRC_SETUP_REQUEST == 1
RRC_SETUP == 2
RRC_RECONFIGURATION == 3
RRC_RELEASE == 6
RRC_SETUP_COMPLETE == 9
RRC_UL_INFORMATION_TRANSFER == 12
RRC_DL_INFORMATION_TRANSFER == 15
RRC_CONN_RECONFIGURATION_COMPLETE == 27

\* the values of ERrcMessageType (aliases share a value)
RrcTypeValues ==
    {1, 2, 3, 5, 6, 7, 8, 9, 10, 11, 12, 13, 14, 15, 16, 18, 19, 20, 22, 23,
     27, 28, 31}

\* the values of the gNB -> UE members of ERrcMessageType
RrcDownlinkTypes == {1, 2, 3, 5, 6, 7, 10, 12, 15, 18, 20, 22}

\* the 2-bit transaction id
TransactionIds == 0..3

MO_SIGNAL == 3

RrcMsg(tid, type, payload) ==
    [payload |-> payload, rrc_transaction_id |-> tid, message_type |-> type]

Tail2(data) == IF Len(data) <= 2 THEN << >> ELSE SubSeq(data, 3, Len(data))

RrcEncode_shift1(msg) ==
    <<msg.rrc_transaction_id * 2 + 1, msg.message_type>> \o msg.payload
RrcEncode(msg) ==
    <<msg.rrc_transaction_id * 4 + 1, msg.message_type>> \o msg.payload

\* ok is FALSE where ERrcMessageType(data[1]) raises ValueError
RrcDecode(data) ==
    IF Len(data) < 2
    THEN [ok |-> TRUE, msg |-> RrcMsg(0, RRC_SETUP_REQUEST, << >>)]
    ELSE IF data[2] \notin RrcTypeValues
         THEN [ok |-> FALSE, msg |-> RrcMsg(0, RRC_SETUP_REQUEST, << >>)]
         ELSE [ok |-> TRUE,
               msg |-> RrcMsg((data[1] \div 4) % 4, data[2], Tail2(data))]

RrcSetupRequestEncode(cause, rnd) ==
    <<0, (cause % 16) % 16, rnd[1] % 128, rnd[2], rnd[3], rnd[4], rnd[5]>>

RrcSetupCompleteEncode(plmn, nas) ==
    <<0, 1, plmn % 16>> \o
    (IF nas # << >> THEN <<57, Len(nas)>> \o nas ELSE << >>)

\* the dedicatedNAS-Message a Setup Complete payload carries after its
\* three leading bytes: tag 0x39, length, then the NAS PDU
DedicatedNas(payload) ==
    IF Len(payload) >= 5 /\ payload[4] = 57
    THEN SubSeq(payload, 6, Len(payload))
    ELSE << >>

\* ------------------------------------------------------------------------
\* RrcStateMachine (core/rrc.py)
\* ------------------------------------------------------------------------
SmResult(state, resp) == [state |-> state, resp |-> resp]

SmStep_direct(state, msg) ==
    IF state = "idle" /\ msg.message_type = RRC_SETUP
    THEN SmResult("connected",
                  Some(RrcMsg(msg.rrc_transaction_id, RRC_SETUP_COMPLETE, << >>)))
    ELSE IF state = "connected" /\ msg.message_type = RRC_RECONFIGURATION
    THEN SmResult("connected",
                  Some(RrcMsg(msg.rrc_transaction_id,
                              RRC_CONN_RECONFIGURATION_COMPLETE, << >>)))
    ELSE IF state = "connected" /\ msg.message_type = RRC_RELEASE
    THEN SmResult("idle", None)
    ELSE SmResult(state, None)
SmStep_echo(state, msg) ==
    IF state = "idle" /\ msg.message_type = RRC_SETUP
    THEN SmResult("connecting",
                  Some(RrcMsg(msg.rrc_transaction_id, RRC_SETUP_COMPLETE, << >>)))
    ELSE IF state \in {"connecting", "connected"}
            /\ msg.message_type = RRC_RECONFIGURATION
    THEN SmResult("connected",
                  Some(RrcMsg(msg.rrc_transaction_id,
                              RRC_CONN_RECONFIGURATION_COMPLETE, << >>)))
    ELSE IF state = "connected" /\ msg.message_type = RRC_RELEASE
    THEN SmResult("idle", None)
    ELSE SmResult(state, None)
SmStep(state, msg) ==
    IF state = "idle"
    THEN IF msg.message_type = RRC_SETUP
         THEN SmResult("connecting",
                       Some(RrcMsg(msg.rrc_transaction_id, RRC_SETUP_COMPLETE, << >>)))
         ELSE SmResult(state, None)
    ELSE IF state = "connecting"
    THEN IF msg.message_type = RRC_RECONFIGURATION
         THEN SmResult("connected",
                       Some(RrcMsg(msg.rrc_transaction_id,
                                   RRC_CONN_RECONFIGURATION_COMPLETE, << >>)))
         ELSE SmResult(state, None)
    ELSE IF state = "connected"
    THEN IF msg.message_type = RRC_RELEASE
         THEN SmResult("idle", None)
         ELSE SmResult(state, None)
    ELSE SmResult(state, None)

SmInit ==
    /\ sm_state = "idle"
    /\ sm_in = None
    /\ sm_resp = None
    /\ sm_hist = << >>

\* RrcStateMachine.handle_message(msg), on the machine's own variables
SmHandleMessage(msg) ==
    /\ Len(sm_hist) < MaxTrace
    /\ sm_state' = SmStep(sm_state, msg).state
    /\ sm_resp' = SmStep(sm_state, msg).resp
    /\ sm_in' = Some(msg)
    /\ sm_hist' = Append(sm_hist, msg.message_type)

HandleMessage(msg) ==
    /\ SmHandleMessage(msg)
    /\ UNCHANGED <<timerVars, ueVars, ue_hist, gnbVars, ngapVars, loopVars,
                 srvVars, codecVars, secVars, rtVars>>

RrcNext ==
    \E type \in RrcTypeValues, tid \in TransactionIds :
        HandleMessage(RrcMsg(tid, type, << >>))

\* ------------------------------------------------------------------------
\* NAS Registration Request (core/nas.py, simulation/__init__.py)
\* ------------------------------------------------------------------------
REGISTRATION_REQUEST == 65

\* UeConfig.imsi after "imsi-", cut in groups of three digits
DefaultImsi == <<208, 930, 0, 0, 1>>
ImsiSet == {DefaultImsi, <<1, 10, 0, 0, 1>>}

Prefix(seq, n) == IF Len(seq) <= n THEN seq ELSE SubSeq(seq, 1, n)

NasEncode(security_header, type, plain) == <<security_header, type>> \o plain

RegistrationRequestEncode(cap, seccap, ident, regtype) ==
    (IF cap # << >> THEN <<14, Len(cap)>> \o cap ELSE << >>) \o
    (IF seccap # << >> THEN <<46, Len(seccap)>> \o seccap ELSE << >>) \o
    (IF ident # << >> THEN <<16, Len(ident)>> \o ident ELSE << >>) \o
    <<14, 1, regtype>>

\* ok is FALSE where bytes([int(group)]) raises ValueError (group > 255)
CreateRegistrationRequest(imsi) ==
    IF \E i \in DOMAIN imsi : imsi[i] > 255
    THEN [ok |-> FALSE, data |-> << >>]
    ELSE [ok |-> TRUE,
          data |-> NasEncode(0, REGISTRATION_REQUEST,
                      RegistrationRequestEncode(<<128, 0, 0>>, <<224, 0, 0>>,
                                                Prefix(<<1>> \o imsi, 8), 1))]

\* ------------------------------------------------------------------------
\* NAS messages handled or sent by the UE (core/nas.py)
\* ------------------------------------------------------------------------
REGISTRATION_ACCEPT == 66
PDU_SESSION_ESTABLISHMENT_REQUEST == 161
PDU_SESSION_ESTABLISHMENT_ACCEPT == 162

\* the values of ENasMessageType
NasTypeValues ==
    (65..73) \cup {76} \cup (86..89) \cup {91} \cup (93..95) \cup {103, 104}
    \cup (161..163) \cup {165, 166} \cup (168..171)

NasMsg(security_header, type, plain, encrypted) ==
    [security_header |-> security_header, message_type |-> type,
     plain_message |-> plain, encrypted_message |-> encrypted]

\* ok is FALSE where ENasMessageType(data[1]) raises ValueError
NasDecode(data) ==
    IF Len(data) >= 2
    THEN IF data[2] \notin NasTypeValues
         THEN [ok |-> FALSE, msg |-> NasMsg(0, REGISTRATION_REQUEST, << >>, << >>)]
         ELSE [ok |-> TRUE,
               msg |-> IF data[1] = 0
                       THEN NasMsg(data[1], data[2], Tail2(data), << >>)
                       ELSE NasMsg(data[1], data[2], << >>, Tail2(data))]
    ELSE [ok |-> TRUE, msg |-> NasMsg(0, REGISTRATION_REQUEST, << >>, << >>)]

PduSessionEstablishmentRequestEncode(type, request_type, s_nssai, dnn) ==
    <<9, 1, type>> \o <<8, 1, request_type>> \o
    (IF s_nssai # << >> THEN <<57, Len(s_nssai)>> \o s_nssai ELSE << >>) \o
    (IF dnn # << >> THEN <<37, Len(dnn)>> \o dnn ELSE << >>)

\* ------------------------------------------------------------------------
\* UeSimulation (simulation/__init__.py)
\* ------------------------------------------------------------------------
GnbRefs == {"gnb-1", "127.0.0.1"}

\* secrets.token_bytes(5)
RandomTokens == {<<0, 0, 0, 0, 0>>, <<255, 18, 52, 86, 120>>}

\* UeConfig.dnn: "internet" (the default) and "ims", as ASCII
DefaultDnn == <<105, 110, 116, 101, 114, 110, 101, 116>>
DnnSet == {DefaultDnn, <<105, 109, 115>>}

\* UeConfig.sst and UeConfig.sd
DefaultSst == 1
DefaultSd == 66051

RetNone == [kind |-> "none", data |-> << >>]
RetBytes(data) == [kind |-> "bytes", data |-> data]
RetRaise == [kind |-> "raise", data |-> << >>]
\* get_state returns the UeState object itself
RetState == [kind |-> "state", data |-> << >>]
\* of the dict get_metrics returns: pdu_sessions and registration_attempts
RetMetrics(u) ==
    [kind |-> "metrics",
     data |-> <<Len(u.pdu_sessions), u.registration_attempts>>]

UeCall(op, ret) == [op |-> op, ret |-> ret]

\* the names UeState holds between two get_state() calls
Snapshot(mm, rrc, cm, sm, gnb) ==
    [mm_state |-> mm, rrc_state |-> rrc, cm_state |-> cm, sm_state |-> sm,
     connected_gnb |-> gnb]

\* a UeSimulation object right after construction
NewUe(imsi, dnn) ==
    [imsi |-> imsi,
     dnn |-> dnn,
     on_rrc_message |-> FALSE,
     on_nas_message |-> FALSE,
     mm_state |-> "MM_NULL",
     mm_substate |-> "MM_DEREGISTERED_NORMAL_SERVICE",
     rrc_state |-> "RRC_IDLE",
     cm_state |-> "CM_IDLE",
     sm_state |-> "SM_NULL",
     connected_gnb_id |-> None,
     state |-> Snapshot("MM_NULL", "RRC_IDLE", "CM_IDLE", "SM_NULL", None),
     pdu_sessions |-> << >>,
     registration_attempts |-> 0,
     last_registration_time |-> None]

\* what one call on a UeSimulation object leaves behind: the object, the
\* call's outcome and what it passed to the two callbacks
UeOut(u, ret, sent_rrc, sent_nas) ==
    [ue |-> u, ret |-> ret, rrc_sent |-> sent_rrc, nas_sent |-> sent_nas]

\* the UeSimulation object held in the variables
UeSelf ==
    [imsi |-> ue_imsi,
     dnn |-> ue_dnn,
     on_rrc_message |-> on_rrc_message,
     on_nas_message |-> on_nas_message,
     mm_state |-> mm_state,
     mm_substate |-> mm_substate,
     rrc_state |-> rrc_state,
     cm_state |-> cm_state,
     sm_state |-> sm_state_ue,
     connected_gnb_id |-> connected_gnb_id,
     state |-> ue_snapshot,
     pdu_sessions |-> pdu_sessions,
     registration_attempts |-> registration_attempts,
     last_registration_time |-> last_registration_time]

\* the variables hold the object u
UeIs(u) ==
    /\ ue_imsi = u.imsi
    /\ ue_dnn = u.dnn
    /\ on_rrc_message = u.on_rrc_message
    /\ on_nas_message = u.on_nas_message
    /\ mm_state = u.mm_state
    /\ mm_substate = u.mm_substate
    /\ rrc_state = u.rrc_state
    /\ cm_state = u.cm_state
    /\ sm_state_ue = u.sm_state
    /\ connected_gnb_id = u.connected_gnb_id
    /\ ue_snapshot = u.state
    /\ pdu_sessions = u.pdu_sessions
    /\ registration_attempts = u.registration_attempts
    /\ last_registration_time = u.last_registration_time

\* the variables hold the object u after the step
UeBecomes(u) ==
    /\ ue_imsi' = u.imsi
    /\ ue_dnn' = u.dnn
    /\ on_rrc_message' = u.on_rrc_message
    /\ on_nas_message' = u.on_nas_message
    /\ mm_state' = u.mm_state
    /\ mm_substate' = u.mm_substate
    /\ rrc_state' = u.rrc_state
    /\ cm_state' = u.cm_state
    /\ sm_state_ue' = u.sm_state
    /\ connected_gnb_id' = u.connected_gnb_id
    /\ ue_snapshot' = u.state
    /\ pdu_sessions' = u.pdu_sessions
    /\ registration_attempts' = u.registration_attempts
    /\ last_registration_time' = u.last_registration_time

\* how the UE came to its RRC state, after the call op took rrc_state from
\* before to after: only a RELEASE takes it out of RRC_CONNECTED
IdleSinceAfter(h, op, before, after) ==
    IF after = "RRC_CONNECTED" THEN "connected"
    ELSE IF before = "RRC_CONNECTED" THEN "release"
    ELSE IF h = "release" /\ op \in {"start", "start_registration"}
    THEN "release_start"
    ELSE h

\* the call op with outcome r was made on the UE held in the variables
UeApply(op, r) ==
    /\ UeBecomes(r.ue)
    /\ idle_since' = IdleSinceAfter(idle_since, op, rrc_state, r.ue.rrc_state)
    /\ ue_call' = UeCall(op, r.ret)
    /\ rrc_sent' = r.rrc_sent
    /\ nas_sent' = r.nas_sent

UeInitWith(imsi, dnn) ==
    /\ UeIs(NewUe(imsi, dnn))
    /\ ue_call = UeCall("init", RetNone)
    /\ rrc_sent = << >>
    /\ nas_sent = << >>
    /\ idle_since = "init"

\* the owner of the UE installs a callback for outgoing RRC messages
SetOnRrcMessage ==
    /\ ~on_rrc_message
    /\ UeBecomes([UeSelf EXCEPT !.on_rrc_message = TRUE])
    /\ UNCHANGED <<ue_call, rrc_sent, nas_sent, idle_since>>
    /\ UNCHANGED <<timerVars, smVars, ue_hist, gnbVars, ngapVars, loopVars,
                 srvVars, codecVars, secVars, rtVars>>

SetOnNasMessage ==
    /\ ~on_nas_message
    /\ UeBecomes([UeSelf EXCEPT !.on_nas_message = TRUE])
    /\ UNCHANGED <<ue_call, rrc_sent, nas_sent, idle_since>>
    /\ UNCHANGED <<timerVars, smVars, ue_hist, gnbVars, ngapVars, loopVars,
                 srvVars, codecVars, secVars, rtVars>>

\* what start_registration hands to on_rrc_message
StartRegistrationSent(cb, rnd) ==
    IF cb
    THEN <<RrcEncode(RrcMsg(0, RRC_SETUP_REQUEST, RrcSetupRequestEncode(MO_SIGNAL, rnd)))>>
    ELSE << >>

\* start_registration(gnb_id) on the object u
StartRegistration(u, gnb, rnd) ==
    UeOut([u EXCEPT !.connected_gnb_id = Some(gnb),
                    !.mm_state = "MM_REGISTERED_INITIATED",
                    !.mm_substate = "MM_REGISTERED_NORMAL_SERVICE"],
          RetNone, StartRegistrationSent(u.on_rrc_message, rnd), << >>)

\* UeSimulation.start(gnb_ip), which awaits start_registration(gnb_ip)
UeStart(gnb, rnd) ==
    /\ UeApply("start", StartRegistration(UeSelf, gnb, rnd))
    /\ UNCHANGED <<timerVars, smVars, ue_hist, gnbVars, ngapVars, loopVars,
                 srvVars, codecVars, secVars, rtVars>>

\* UeSimulation.start_registration(gnb_id), called directly
UeStartRegistration(gnb, rnd) ==
    /\ UeApply("start_registration", StartRegistration(UeSelf, gnb, rnd))
    /\ UNCHANGED <<timerVars, smVars, ue_hist, gnbVars, ngapVars, loopVars,
                 srvVars, codecVars, secVars, rtVars>>

\* the RRC state handle_rrc_message assigns on SETUP while idle
SetupRrcState_stay(state) == state
SetupRrcState(state) == "RRC_CONNECTED"

\* the MM state handle_rrc_message assigns on RELEASE
ReleasedMmState_keep(mm) == mm
ReleasedMmState(mm) == "MM_DEREGISTERED"

\* what handle_rrc_message leaves in connected_gnb_id on RELEASE
ReleasedGnb_keep(gnb) == gnb
ReleasedGnb(gnb) == None

\* handle_rrc_message(data) on the object u
UeRrcResult(u, data) ==
    LET dec == RrcDecode(data)
        msg == dec.msg
        reg == CreateRegistrationRequest(u.imsi)
        in_idle_setup == dec.ok /\ u.rrc_state = "RRC_IDLE"
                         /\ msg.message_type = RRC_SETUP
        in_conn == dec.ok /\ u.rrc_state = "RRC_CONNECTED"
        release == in_conn /\ msg.message_type = RRC_RELEASE
        ret ==
            IF ~dec.ok THEN RetRaise
            ELSE IF in_idle_setup
            THEN IF reg.ok
                 THEN RetBytes(RrcEncode(RrcMsg(0, RRC_SETUP_COMPLETE,
                                    RrcSetupCompleteEncode(1, reg.data))))
                 ELSE RetRaise
            ELSE IF in_conn /\ msg.message_type = RRC_RECONFIGURATION
            THEN RetBytes(RrcEncode(RrcMsg(msg.rrc_transaction_id,
                                    RRC_CONN_RECONFIGURATION_COMPLETE, << >>)))
            ELSE RetNone
        after ==
            [u EXCEPT
               !.rrc_state = IF in_idle_setup THEN SetupRrcState(u.rrc_state)
                             ELSE IF release THEN "RRC_IDLE" ELSE u.rrc_state,
               !.cm_state = IF in_idle_setup THEN "CM_CONNECTED"
                            ELSE IF release THEN "CM_IDLE" ELSE u.cm_state,
               !.mm_state = IF release THEN ReleasedMmState(u.mm_state)
                            ELSE u.mm_state,
               !.connected_gnb_id = IF release THEN ReleasedGnb(u.connected_gnb_id)
                                    ELSE u.connected_gnb_id]
    IN  UeOut(after, ret, << >>,
              IF in_conn /\ msg.message_type = RRC_DL_INFORMATION_TRANSFER
                 /\ u.on_nas_message
              THEN <<msg.payload>>
              ELSE << >>)

\* UeSimulation.handle_rrc_message(data), on the UE's own variables
UeHandleRrcMessage(data) ==
    UeApply("handle_rrc_message", UeRrcResult(UeSelf, data))

UeHandleRrc(data) ==
    /\ UeHandleRrcMessage(data)
    /\ UNCHANGED <<timerVars, smVars, ue_hist, gnbVars, ngapVars, loopVars,
                 srvVars, codecVars, secVars, rtVars>>

\* inbound RRC bytes: every message type with every transaction id, and
\* inputs that are too short or carry an unknown type byte
RrcInboundBytes ==
    {RrcEncode(RrcMsg(tid, type, << >>)) :
        tid \in TransactionIds, type \in RrcTypeValues}
    \cup {<< >>, <<1>>, <<1, 0>>, <<5, 4>>}

\* what start_pdu_session hands to on_nas_message
StartPduSessionSent(cb, dnn) ==
    IF cb
    THEN <<NasEncode(0, PDU_SESSION_ESTABLISHMENT_REQUEST,
               PduSessionEstablishmentRequestEncode(1, 1,
                   <<DefaultSst, 3, 0, (DefaultSd \div 65536) % 256>>, dnn))>>
    ELSE << >>

\* the descriptor handle_nas_message appends to state.pdu_sessions
SessionRecord_fixed(dnn) ==
    [id |-> 1, state |-> "ACTIVE", type |-> "IPv4", apn |-> DefaultDnn]
SessionRecord(dnn) ==
    [id |-> 1, state |-> "ACTIVE", type |-> "IPv4", apn |-> dnn]

\* handle_nas_message(data) on the object u, at time clock
UeNasResult(u, data, clock) ==
    LET dec == NasDecode(data)
        type == dec.msg.message_type
    IN  IF ~dec.ok THEN UeOut(u, RetRaise, << >>, << >>)
        ELSE IF type = REGISTRATION_ACCEPT
        THEN UeOut([u EXCEPT !.mm_state = "MM_REGISTERED",
                             !.mm_substate = "MM_REGISTERED_NORMAL_SERVICE",
                             !.last_registration_time = Some(clock),
                             !.sm_state = "SM_PENDING"],
                   RetNone, << >>, StartPduSessionSent(u.on_nas_message, u.dnn))
        ELSE IF type = PDU_SESSION_ESTABLISHMENT_ACCEPT
        THEN UeOut([u EXCEPT !.sm_state = "SM_ACTIVE",
                             !.pdu_sessions = Append(@, SessionRecord(u.dnn))],
                   RetNone, << >>, << >>)
        ELSE UeOut(u, RetNone, << >>, << >>)

\* UeSimulation.handle_nas_message(data), on the UE's own variables
UeHandleNasMessage(data) ==
    /\ Len(UeNasResult(UeSelf, data, now).ue.pdu_sessions) <= MaxSessions
    /\ UeApply("handle_nas_message", UeNasResult(UeSelf, data, now))

UeHandleNas(data) ==
    /\ UeHandleNasMessage(data)
    /\ UNCHANGED <<timerVars, smVars, ue_hist, gnbVars, ngapVars, loopVars,
                 srvVars, codecVars, secVars, rtVars>>

\* inbound NAS bytes: every message type, a protected message, a message
\* with a body, and inputs that are too short or carry an unknown type byte
NasInboundBytes ==
    {<<0, type>> : type \in NasTypeValues}
    \cup {<<64, REGISTRATION_ACCEPT>>,
          <<0, PDU_SESSION_ESTABLISHMENT_ACCEPT, 9, 1, 1>>}
    \cup {<< >>, <<0>>, <<0, 0>>, <<0, 255>>}

\* the attempt counter after one get_state() call
GetStateAttempts_same(n) == n
GetStateAttempts(n) == n + 1

\* get_state() on the object u
GetStateResult(u) ==
    UeOut([u EXCEPT !.state = Snapshot(u.mm_state, u.rrc_state, u.cm_state,
                                       u.sm_state, u.connected_gnb_id),
                    !.registration_attempts = GetStateAttempts(@)],
          RetState, << >>, << >>)

\* UeSimulation.get_state()
UeGetState ==
    /\ registration_attempts < MaxAttempts
    /\ UeApply("get_state", GetStateResult(UeSelf))
    /\ UNCHANGED <<timerVars, smVars, ue_hist, gnbVars, ngapVars, loopVars,
                 srvVars, codecVars, secVars, rtVars>>

\* UeSimulation.get_metrics()
UeGetMetrics ==
    /\ UeApply("get_metrics", UeOut(UeSelf, RetMetrics(UeSelf), << >>, << >>))
    /\ UNCHANGED <<timerVars, smVars, ue_hist, gnbVars, ngapVars, loopVars,
                 srvVars, codecVars, secVars, rtVars>>

UeNext ==
    \/ SetOnRrcMessage
    \/ SetOnNasMessage
    \/ \E gnb \in GnbRefs, rnd \in RandomTokens : UeStart(gnb, rnd)
    \/ \E data \in RrcInboundBytes : UeHandleRrc(data)
    \/ \E data \in NasInboundBytes : UeHandleNas(data)

\* the inbound messages the UE reacts to, one that it ignores and one
\* with an unknown type byte, for the runs that also read the UE's state
RrcReadBytes ==
    {RrcEncode(RrcMsg(0, type, << >>)) :
        type \in {RRC_SETUP, RRC_RECONFIGURATION, RRC_RELEASE,
                  RRC_DL_INFORMATION_TRANSFER, RRC_SETUP_REQUEST}}
    \cup {<<1, 0>>}

NasReadBytes ==
    {<<0, type>> : type \in {REGISTRATION_ACCEPT, PDU_SESSION_ESTABLISHMENT_ACCEPT,
                             REGISTRATION_REQUEST}}
    \cup {<<0, 0>>}

\* every operation of a UE whose callbacks are not installed, the reads of
\* its state included
UeReadNext ==
    \/ \E gnb \in GnbRefs, rnd \in RandomTokens : UeStart(gnb, rnd)
    \/ \E gnb \in GnbRefs, rnd \in RandomTokens : UeStartRegistration(gnb, rnd)
    \/ \E data \in RrcReadBytes : UeHandleRrc(data)
    \/ \E data \in NasReadBytes : UeHandleNas(data)
    \/ UeGetState
    \/ UeGetMetrics

\* ------------------------------------------------------------------------
\* One message delivered both to an RrcStateMachine and, encoded, to a UE
\* ------------------------------------------------------------------------
SmRespType(resp) == IF resp = None THEN 0 ELSE resp[1].message_type

UeRespType(ret) ==
    IF ret.kind = "bytes" THEN RrcDecode(ret.data).msg.message_type
    ELSE IF ret.kind = "raise" THEN -1
    ELSE 0

DeliverBoth(msg) ==
    /\ SmHandleMessage(msg)
    /\ UeHandleRrcMessage(RrcEncode(msg))
    /\ ue_hist' = Append(ue_hist, [sm |-> SmRespType(sm_resp'),
                                   ue |-> UeRespType(ue_call'.ret)])
    /\ UNCHANGED <<timerVars, gnbVars, ngapVars, loopVars, srvVars, codecVars,
                 secVars, rtVars>>

EquivNext ==
    \E type \in RrcDownlinkTypes, tid \in TransactionIds :
        DeliverBoth(RrcMsg(tid, type, << >>))

\* ------------------------------------------------------------------------
\* NgapConnection (core/ngap.py)
\* ------------------------------------------------------------------------
\* sctp_socket is "none", "open" (connected) or "failed" (not connected)
NewNgapConnection == [connected |-> FALSE, sctp_socket |-> "none"]

\* NgapConnection.connect(), the AMF accepting the connection or not
NgapConnect(conn, accept) ==
    IF accept
    THEN [conn EXCEPT !.connected = TRUE, !.sctp_socket = "open"]
    ELSE [conn EXCEPT !.sctp_socket = "failed"]

\* NgapConnection._send, as what the AMF has received after it
NgapSend_drop(conn, received, msg) == received
NgapSend(conn, received, msg) ==
    IF conn.connected /\ conn.sctp_socket = "open"
    THEN Append(received, msg)
    ELSE received

\* ------------------------------------------------------------------------
\* GnbSimulation (simulation/__init__.py)
\* ------------------------------------------------------------------------
UeIds == {"ue-1", "ue-2"}

GnbSnapshot(state, connected, ngap) ==
    [state |-> state, amf_connected |-> connected, ngap_state |-> ngap]

Metrics(total, exchanged) ==
    [total_ues |-> total, connected_ues |-> 0, registration_requests |-> 0,
     pdu_sessions_established |-> 0, messages_exchanged |-> exchanged]

GnbCall(op, ret) == [op |-> op, ret |-> ret]

GnbInit ==
    /\ gnb_state = "GNB_POWERING_ON"
    /\ ngap_state = "NGAP_IDLE"
    /\ amf_connected = FALSE
    /\ gnb_snapshot = GnbSnapshot("GNB_INVALID", FALSE, "NGAP_IDLE")
    /\ ngap_connection = None
    /\ ues = << >>
    /\ metrics = Metrics(0, 0)
    /\ gnb_pc = "idle"
    /\ recv_tasks = << >>
    /\ amf_received = << >>
    /\ starts = 0
    /\ last_connect = "none"
    /\ gnb_call = GnbCall("init", RetNone)

\* start(), up to the creation of the NgapConnection
GnbStartConfigure ==
    /\ gnb_pc = "idle"
    /\ starts < MaxStarts
    /\ gnb_state' = "GNB_CONFIGURATION"
    /\ ngap_connection' = Some(NewNgapConnection)
    /\ starts' = starts + 1
    /\ gnb_pc' = "configured"
    /\ UNCHANGED <<ngap_state, amf_connected, gnb_snapshot, ues, metrics,
                   recv_tasks, amf_received, last_connect, gnb_call>>
    /\ UNCHANGED <<timerVars, smVars, ueVars, ue_hist, ngapVars, loopVars,
                 srvVars, codecVars, secVars, rtVars>>

\* start(), the two assignments before connect()
GnbStartWaitN2 ==
    /\ gnb_pc = "configured"
    /\ ngap_state' = "NGAP_CONNECTING"
    /\ gnb_state' = "GNB_WAITING_FOR_N2"
    /\ gnb_pc' = "waiting"
    /\ UNCHANGED <<amf_connected, gnb_snapshot, ngap_connection, ues, metrics,
                   recv_tasks, amf_received, starts, last_connect, gnb_call>>
    /\ UNCHANGED <<timerVars, smVars, ueVars, ue_hist, ngapVars, loopVars,
                 srvVars, codecVars, secVars, rtVars>>

\* start(), connect() and, when it fails, the else branch that ends start()
GnbStartConnect(accept) ==
    /\ gnb_pc = "waiting"
    /\ ngap_connection' = Some(NgapConnect(ngap_connection[1], accept))
    /\ last_connect' = IF accept THEN "accepted" ELSE "refused"
    /\ gnb_state' = IF accept THEN gnb_state ELSE "GNB_FAILURE"
    /\ gnb_pc' = IF accept THEN "connected" ELSE "idle"
    /\ gnb_call' = IF accept THEN gnb_call ELSE GnbCall("start", RetNone)
    /\ UNCHANGED <<ngap_state, amf_connected, gnb_snapshot, ues, metrics,
                   recv_tasks, amf_received, starts>>
    /\ UNCHANGED <<timerVars, smVars, ueVars, ue_hist, ngapVars, loopVars,
                 srvVars, codecVars, secVars, rtVars>>

\* start(), after a successful connect(): the flags and create_task
GnbStartLoop ==
    /\ gnb_pc = "connected"
    /\ ngap_state' = "NGAP_CONNECTED"
    /\ amf_connected' = TRUE
    /\ gnb_snapshot' = [gnb_snapshot EXCEPT !.amf_connected = TRUE]
    /\ recv_tasks' = Append(recv_tasks, "scheduled")
    /\ gnb_pc' = "looping"
    /\ UNCHANGED <<gnb_state, ngap_connection, ues, metrics, amf_received,
                   starts, last_connect, gnb_call>>
    /\ UNCHANGED <<timerVars, smVars, ueVars, ue_hist, ngapVars, loopVars,
                 srvVars, codecVars, secVars, rtVars>>

\* start(), send_ng_setup_request()
GnbStartSendSetup ==
    /\ gnb_pc = "looping"
    /\ amf_received' = NgapSend(ngap_connection[1], amf_received, starts)
    /\ gnb_pc' = "sent"
    /\ UNCHANGED <<gnb_state, ngap_state, amf_connected, gnb_snapshot,
                   ngap_connection, ues, metrics, recv_tasks, starts,
                   last_connect, gnb_call>>
    /\ UNCHANGED <<timerVars, smVars, ueVars, ue_hist, ngapVars, loopVars,
                 srvVars, codecVars, secVars, rtVars>>

\* start(), the last assignments
GnbStartReady ==
    /\ gnb_pc = "sent"
    /\ gnb_state' = "GNB_READY"
    /\ gnb_snapshot' = [gnb_snapshot EXCEPT !.state = "GNB_READY",
                                            !.ngap_state = "NGAP_CONNECTED"]
    /\ gnb_pc' = "idle"
    /\ gnb_call' = GnbCall("start", RetNone)
    /\ UNCHANGED <<ngap_state, amf_connected, ngap_connection, ues, metrics,
                   recv_tasks, amf_received, starts, last_connect>>
    /\ UNCHANGED <<timerVars, smVars, ueVars, ue_hist, ngapVars, loopVars,
                 srvVars, codecVars, secVars, rtVars>>

\* the task created for ngap_receive_loop gets to run: it returns at once
\* without a connection or with amf_connected false, else it calls
\* ngap_connection.receive(), which NgapConnection does not have
GnbReceiveLoop(i) ==
    /\ gnb_pc = "idle"
    /\ i \in DOMAIN recv_tasks
    /\ recv_tasks[i] = "scheduled"
    /\ recv_tasks' = [recv_tasks EXCEPT ![i] =
                         IF ngap_connection = None \/ ~amf_connected
                         THEN "returned"
                         ELSE "failed"]
    /\ UNCHANGED <<gnb_state, ngap_state, amf_connected, gnb_snapshot,
                   ngap_connection, ues, metrics, gnb_pc, amf_received, starts,
                   last_connect, gnb_call>>
    /\ UNCHANGED <<timerVars, smVars, ueVars, ue_hist, ngapVars, loopVars,
                 srvVars, codecVars, secVars, rtVars>>

\* what stop() returns: it disconnects only a connection that exists, so
\* that it raises nothing without one
GnbStopResult_unguarded(conn) == IF conn = None THEN RetRaise ELSE RetNone
GnbStopResult(conn) == RetNone

\* GnbSimulation.stop()
GnbStop ==
    /\ gnb_pc = "idle"
    /\ gnb_state' = "GNB_POWERING_OFF"
    /\ ngap_connection' = None
    /\ amf_connected' = FALSE
    /\ ngap_state' = "NGAP_IDLE"
    /\ gnb_call' = GnbCall("stop", GnbStopResult(ngap_connection))
    /\ UNCHANGED <<gnb_snapshot, ues, metrics, gnb_pc, recv_tasks,
                   amf_received, starts, last_connect>>
    /\ UNCHANGED <<timerVars, smVars, ueVars, ue_hist, ngapVars, loopVars,
                 srvVars, codecVars, secVars, rtVars>>

\* self.metrics["messages_exchanged"] += 1
CountMessage_skip(m) == m
CountMessage(m) == [m EXCEPT !.messages_exchanged = @ + 1]

\* GnbSimulation.handle_ngap_message(data)
GnbHandleNgapMessage(data) ==
    /\ gnb_pc = "idle"
    /\ metrics.messages_exchanged < MaxMsgs
    /\ metrics' = CountMessage(metrics)
    /\ gnb_call' = GnbCall("handle_ngap_message", RetNone)
    /\ UNCHANGED <<gnb_state, ngap_state, amf_connected, gnb_snapshot,
                   ngap_connection, ues, gnb_pc, recv_tasks, amf_received,
                   starts, last_connect>>
    /\ UNCHANGED <<timerVars, smVars, ueVars, ue_hist, ngapVars, loopVars,
                 srvVars, codecVars, secVars, rtVars>>

\* the UE table with ue_id bound to the object u
PutUe(table, ue_id, u) ==
    [id \in (DOMAIN table) \cup {ue_id} |-> IF id = ue_id THEN u ELSE table[id]]

\* what handle_ue_rrc and handle_ue_nas return for the UE's response
GnbResponse(ret) ==
    IF ret.kind = "raise" THEN RetRaise
    ELSE IF ret.kind = "bytes" /\ ret.data # << >> THEN ret
    ELSE RetBytes(<< >>)

\* GnbSimulation.handle_ue_rrc(ue_id, data)
GnbHandleUeRrc(ue_id, data) ==
    LET known == ue_id \in DOMAIN ues
        u == IF known THEN ues[ue_id] ELSE NewUe(DefaultImsi, DefaultDnn)
        r == UeRrcResult(u, data)
    IN  /\ gnb_pc = "idle"
        /\ metrics.messages_exchanged < MaxMsgs
        /\ metrics' = [CountMessage(metrics) EXCEPT
                          !.total_ues = IF known THEN @ ELSE @ + 1]
        /\ ues' = PutUe(ues, ue_id, r.ue)
        /\ gnb_call' = GnbCall("handle_ue_rrc", GnbResponse(r.ret))
        /\ UNCHANGED <<gnb_state, ngap_state, amf_connected, gnb_snapshot,
                       ngap_connection, gnb_pc, recv_tasks, amf_received,
                       starts, last_connect>>
        /\ UNCHANGED <<timerVars, smVars, ueVars, ue_hist, ngapVars, loopVars,
                 srvVars, codecVars, secVars, rtVars>>

\* GnbSimulation.handle_ue_nas(ue_id, data)
GnbHandleUeNas(ue_id, data) ==
    LET known == ue_id \in DOMAIN ues
        r == UeNasResult(ues[ue_id], data, now)
    IN  /\ gnb_pc = "idle"
        /\ metrics.messages_exchanged < MaxMsgs
        /\ known => Len(r.ue.pdu_sessions) <= MaxSessions
        /\ metrics' = CountMessage(metrics)
        /\ ues' = IF known THEN PutUe(ues, ue_id, r.ue) ELSE ues
        /\ gnb_call' = GnbCall("handle_ue_nas",
                               IF known THEN GnbResponse(r.ret)
                               ELSE RetBytes(<< >>))
        /\ UNCHANGED <<gnb_state, ngap_state, amf_connected, gnb_snapshot,
                       ngap_connection, gnb_pc, recv_tasks, amf_received,
                       starts, last_connect>>
        /\ UNCHANGED <<timerVars, smVars, ueVars, ue_hist, ngapVars, loopVars,
                 srvVars, codecVars, secVars, rtVars>>

\* bytes the AMF sends: an initiating message, another one, nothing
NgapInboundBytes == {<<0>>, <<32>>, << >>}

GnbNext ==
    \/ GnbStartConfigure
    \/ GnbStartWaitN2
    \/ \E accept \in BOOLEAN : GnbStartConnect(accept)
    \/ GnbStartLoop
    \/ GnbStartSendSetup
    \/ GnbStartReady
    \/ \E i \in 1..MaxStarts : GnbReceiveLoop(i)
    \/ GnbStop
    \/ \E data \in NgapInboundBytes : GnbHandleNgapMessage(data)
    \/ \E ue_id \in UeIds, data \in RrcReadBytes : GnbHandleUeRrc(ue_id, data)
    \/ \E ue_id \in UeIds, data \in NasReadBytes : GnbHandleUeNas(ue_id, data)

\* ------------------------------------------------------------------------
\* NgapTask and the receive loop of its NgapConnection (core/ngap.py)
\* ------------------------------------------------------------------------
RetBool(b) == [kind |-> IF b THEN "true" ELSE "false", data |-> << >>]

NtCall(op, ret) == [op |-> op, ret |-> ret]

\* NgapConnection.disconnect()
NgapDisconnect(conn) == [connected |-> FALSE, sctp_socket |-> "none"]

\* what NgapConnection._send returns
NgapSendOk_always(conn) == TRUE
NgapSendOk(conn) == conn.connected /\ conn.sctp_socket = "open"

\* what SctpSocket.recv can return: two messages, b"" and None
ReadOutcomes == {Some(<<0>>), Some(<<32>>), Some(<< >>), None}

\* the truth value of the data a read returned
HasData(result) == result # None /\ result[1] # << >>

\* a task that has not finished
Live(task) == task \in {"scheduled", "sleeping", "running", "cancelling"}

\* a task is between two reads with no suspension point, so that nothing
\* else runs
LoopHoldsControl == \E i \in DOMAIN nt_tasks : nt_tasks[i] = "running"

NtInit ==
    /\ nt_state = "idle"
    /\ nt_pc = "idle"
    /\ nt_conn = NewNgapConnection
    /\ nt_tasks = << >>
    /\ nt_on_message = FALSE
    /\ nt_reads = << >>
    /\ nt_got = << >>
    /\ nt_wire = << >>
    /\ nt_call = NtCall("init", RetNone)

\* NgapTask.set_message_handler(handler)
NtSetMessageHandler ==
    /\ nt_pc = "idle"
    /\ ~LoopHoldsControl
    /\ nt_on_message' = TRUE
    /\ nt_call' = NtCall("set_message_handler", RetNone)
    /\ UNCHANGED <<nt_state, nt_pc, nt_conn, nt_tasks, nt_reads, nt_got,
                   nt_wire>>
    /\ UNCHANGED <<timerVars, smVars, ueVars, ue_hist, gnbVars, loopVars, srvVars,
                 codecVars, secVars, rtVars>>

\* NgapTask.start(), the assignment before connect()
NtStartBegin ==
    /\ nt_pc = "idle"
    /\ ~LoopHoldsControl
    /\ Len(nt_tasks) < MaxStarts
    /\ Len(nt_wire) < MaxSends
    /\ nt_state' = "connecting"
    /\ nt_pc' = "connecting"
    /\ UNCHANGED <<nt_conn, nt_tasks, nt_on_message, nt_reads, nt_got,
                   nt_wire, nt_call>>
    /\ UNCHANGED <<timerVars, smVars, ueVars, ue_hist, gnbVars, loopVars, srvVars,
                 codecVars, secVars, rtVars>>

\* NgapTask.start(), connect() and the branch taken on its result
NtStartConnect(accept) ==
    LET conn == NgapConnect(nt_conn, accept)
    IN  /\ nt_pc = "connecting"
        /\ nt_conn' = conn
        /\ nt_state' = IF accept THEN "connected" ELSE "idle"
        /\ nt_wire' = IF accept THEN NgapSend(conn, nt_wire, "ng_setup")
                      ELSE nt_wire
        /\ nt_tasks' = IF accept THEN Append(nt_tasks, "scheduled")
                       ELSE nt_tasks
        /\ nt_pc' = "idle"
        /\ nt_call' = NtCall("start", RetBool(accept))
        /\ UNCHANGED <<nt_on_message, nt_reads, nt_got>>
        /\ UNCHANGED <<timerVars, smVars, ueVars, ue_hist, gnbVars, loopVars, srvVars,
                 codecVars, secVars, rtVars>>

\* NgapConnection.send_uplink_nas(ue_id, nas_pdu)
NtSendUplinkNas ==
    /\ nt_pc = "idle"
    /\ ~LoopHoldsControl
    /\ NgapSendOk(nt_conn) => Len(nt_wire) < MaxSends
    /\ nt_wire' = NgapSend(nt_conn, nt_wire, "uplink_nas")
    /\ nt_call' = NtCall("send_uplink_nas", RetBool(NgapSendOk(nt_conn)))
    /\ UNCHANGED <<nt_state, nt_pc, nt_conn, nt_tasks, nt_on_message,
                   nt_reads, nt_got>>
    /\ UNCHANGED <<timerVars, smVars, ueVars, ue_hist, gnbVars, loopVars, srvVars,
                 codecVars, secVars, rtVars>>

\* NgapConnection.disconnect(), called on NgapTask.connection
NtDisconnect ==
    /\ nt_pc = "idle"
    /\ ~LoopHoldsControl
    /\ nt_conn' = NgapDisconnect(nt_conn)
    /\ nt_call' = NtCall("disconnect", RetNone)
    /\ UNCHANGED <<nt_state, nt_pc, nt_tasks, nt_on_message, nt_reads,
                   nt_got, nt_wire>>
    /\ UNCHANGED <<timerVars, smVars, ueVars, ue_hist, gnbVars, loopVars, srvVars,
                 codecVars, secVars, rtVars>>

\* the state of a receive_loop task after it ran from where it was
\* suspended up to its next suspension point or read
LoopTaskAfter(task, conn, result) ==
    IF task = "scheduled" /\ conn.sctp_socket = "none" THEN "returned"
    ELSE IF ~conn.connected THEN "returned"
    ELSE IF HasData(result) THEN "running"
    ELSE "sleeping"

\* what on_message has been given after a read returned result
GotAfter_twice(got, handler, result) ==
    IF HasData(result) /\ handler
    THEN Append(Append(got, result[1]), result[1])
    ELSE got
GotAfter(got, handler, result) ==
    IF HasData(result) /\ handler THEN Append(got, result[1]) ELSE got

\* task i of receive_loop runs: it ends when it finds no socket or no
\* connection, else it makes one recv(), which on a socket that is not
\* connected returns None
NtLoopStep(i, outcome) ==
    LET task == nt_tasks[i]
        ends == LoopTaskAfter(task, nt_conn, outcome) = "returned"
        result == IF nt_conn.sctp_socket = "open" THEN outcome ELSE None
    IN  /\ nt_pc \in {"idle", "stopping"}
        /\ i \in DOMAIN nt_tasks
        /\ task \in {"scheduled", "sleeping", "running"}
        /\ LoopHoldsControl => task = "running"
        /\ ~ends => Len(nt_reads) < MaxReads
        /\ nt_tasks' = [nt_tasks EXCEPT
                           ![i] = LoopTaskAfter(task, nt_conn, result)]
        /\ nt_reads' = IF ends THEN nt_reads ELSE Append(nt_reads, result)
        /\ nt_got' = IF ends THEN nt_got
                     ELSE GotAfter(nt_got, nt_on_message, result)
        /\ UNCHANGED <<nt_state, nt_pc, nt_conn, nt_on_message, nt_wire,
                       nt_call>>
        /\ UNCHANGED <<timerVars, smVars, ueVars, ue_hist, gnbVars, loopVars, srvVars,
                 codecVars, secVars, rtVars>>

\* NgapTask.receive_task is set and that task has not finished
ReceiveTaskLive ==
    nt_tasks # << >> /\ Live(nt_tasks[Len(nt_tasks)])

\* NgapTask.stop() with no receive task or a finished one: nothing to wait
\* for
NtStop ==
    /\ nt_pc = "idle"
    /\ ~LoopHoldsControl
    /\ ~ReceiveTaskLive
    /\ nt_conn' = NgapDisconnect(nt_conn)
    /\ nt_state' = "idle"
    /\ nt_call' = NtCall("stop", RetNone)
    /\ UNCHANGED <<nt_pc, nt_tasks, nt_on_message, nt_reads, nt_got, nt_wire>>
    /\ UNCHANGED <<timerVars, smVars, ueVars, ue_hist, gnbVars, loopVars, srvVars,
                 codecVars, secVars, rtVars>>

\* NgapTask.stop(), receive_task.cancel() and the await of the task
NtStopCancel ==
    /\ nt_pc = "idle"
    /\ ~LoopHoldsControl
    /\ ReceiveTaskLive
    /\ nt_tasks' = [nt_tasks EXCEPT ![Len(nt_tasks)] = "cancelling"]
    /\ nt_pc' = "stopping"
    /\ UNCHANGED <<nt_state, nt_conn, nt_on_message, nt_reads, nt_got,
                   nt_wire, nt_call>>
    /\ UNCHANGED <<timerVars, smVars, ueVars, ue_hist, gnbVars, loopVars, srvVars,
                 codecVars, secVars, rtVars>>

\* the cancelled task gets CancelledError at its suspension point
NtTaskCancelled(i) ==
    /\ i \in DOMAIN nt_tasks
    /\ nt_tasks[i] = "cancelling"
    /\ ~LoopHoldsControl
    /\ nt_tasks' = [nt_tasks EXCEPT ![i] = "cancelled"]
    /\ UNCHANGED <<nt_state, nt_pc, nt_conn, nt_on_message, nt_reads, nt_got,
                   nt_wire, nt_call>>
    /\ UNCHANGED <<timerVars, smVars, ueVars, ue_hist, gnbVars, loopVars, srvVars,
                 codecVars, secVars, rtVars>>

\* NgapTask.stop(), after the awaited task has finished
NtStopFinish ==
    /\ nt_pc = "stopping"
    /\ ~LoopHoldsControl
    /\ ~ReceiveTaskLive
    /\ nt_conn' = NgapDisconnect(nt_conn)
    /\ nt_state' = "idle"
    /\ nt_pc' = "idle"
    /\ nt_call' = NtCall("stop", RetNone)
    /\ UNCHANGED <<nt_tasks, nt_on_message, nt_reads, nt_got, nt_wire>>
    /\ UNCHANGED <<timerVars, smVars, ueVars, ue_hist, gnbVars, loopVars, srvVars,
                 codecVars, secVars, rtVars>>

\* no call has been made on the gNB yet
GnbUntouched == gnb_call.op = "init" /\ gnb_pc = "idle" /\ starts = 0

\* no call has been made on the NgapTask yet
TaskUntouched == nt_call.op = "init" /\ nt_pc = "idle"

\* the life cycle of one of the two entities that hold a transport session:
\* a gNB, without the messages it handles, or an NgapTask
LifeNext ==
    \/ TaskUntouched /\ GnbStartConfigure
    \/ TaskUntouched /\ GnbStartWaitN2
    \/ TaskUntouched /\ \E accept \in BOOLEAN : GnbStartConnect(accept)
    \/ TaskUntouched /\ GnbStartLoop
    \/ TaskUntouched /\ GnbStartSendSetup
    \/ TaskUntouched /\ GnbStartReady
    \/ TaskUntouched /\ \E i \in 1..MaxStarts : GnbReceiveLoop(i)
    \/ TaskUntouched /\ GnbStop
    \/ GnbUntouched /\ NtSetMessageHandler
    \/ GnbUntouched /\ NtStartBegin
    \/ GnbUntouched /\ \E accept \in BOOLEAN : NtStartConnect(accept)
    \/ GnbUntouched /\ NtSendUplinkNas
    \/ GnbUntouched /\ NtDisconnect
    \/ GnbUntouched /\ \E i \in 1..MaxStarts, outcome \in ReadOutcomes :
                            NtLoopStep(i, outcome)
    \/ GnbUntouched /\ NtStop
    \/ GnbUntouched /\ NtStopCancel
    \/ GnbUntouched /\ \E i \in 1..MaxStarts : NtTaskCancelled(i)
    \/ GnbUntouched /\ NtStopFinish

\* ------------------------------------------------------------------------
\* The event loop and the coroutines that call one UE's handlers
\* (simulation/__init__.py; asyncio executes one coroutine at a time and
\* leaves it only where it awaits something that suspends)
\* ------------------------------------------------------------------------
\* the handler invocation has begun and has not yet returned
InHandler(task) == task[3] \in {"entered", "start_pdu_session"}

\* whether a handler hands control back to the event loop on reaching the
\* position: `await self.start_pdu_session()` executes the awaited coroutine
\* inline, start_pdu_session awaits nothing, and the callbacks are plain
\* calls
AwaitSuspends_yield(pc) == pc = "start_pdu_session"
AwaitSuspends(pc) == FALSE

\* the invocation the event loop executes once invocation i is at pc
RunningAfter(i, pc) ==
    IF pc = "returned" \/ AwaitSuspends(pc) THEN 0 ELSE i

\* the calls made on the UE: bytes the handlers react to
HandlerInputs ==
    {<<"rrc", RrcEncode(RrcMsg(0, type, << >>))>> :
        type \in {RRC_SETUP, RRC_DL_INFORMATION_TRANSFER, RRC_RELEASE}}
    \cup {<<"nas", <<0, type>>>> :
        type \in {REGISTRATION_ACCEPT, PDU_SESSION_ESTABLISHMENT_ACCEPT}}

LoopInit ==
    /\ h_tasks = << >>
    /\ h_running = 0

\* a coroutine that will call the handler is created: by handle_ue_rrc or
\* handle_ue_nas of the gNB, or by a callback that schedules a task
HandlerCall(handler, data) ==
    /\ Len(h_tasks) < MaxTasks
    /\ h_tasks' = Append(h_tasks, <<handler, data, "ready">>)
    /\ UNCHANGED <<h_running, timerVars, smVars, ueVars, ue_hist, gnbVars,
                   ngapVars, srvVars, codecVars, secVars,
                 rtVars>>

\* the event loop, executing nothing else, begins the invocation
HandlerBegin(i) ==
    /\ i \in 1..Len(h_tasks)
    /\ h_tasks[i][3] = "ready"
    /\ h_running = 0
    /\ h_tasks' = [h_tasks EXCEPT ![i][3] = "entered"]
    /\ h_running' = RunningAfter(i, "entered")
    /\ UNCHANGED <<timerVars, smVars, ueVars, ue_hist, gnbVars, ngapVars, srvVars,
                 codecVars, secVars, rtVars>>

\* the event loop executes invocation i, or takes it up again
Executes(i) ==
    /\ i \in 1..Len(h_tasks)
    /\ h_running \in {0, i}

\* handle_rrc_message runs from its first line to its return
HandlerRunRrc(i) ==
    /\ Executes(i)
    /\ h_tasks[i][1] = "rrc"
    /\ h_tasks[i][3] = "entered"
    /\ UeHandleRrcMessage(h_tasks[i][2])
    /\ h_tasks' = [h_tasks EXCEPT ![i][3] = "returned"]
    /\ h_running' = RunningAfter(i, "returned")
    /\ UNCHANGED <<timerVars, smVars, ue_hist, gnbVars, ngapVars, srvVars,
                 codecVars, secVars, rtVars>>

\* handle_nas_message decodes a REGISTRATION_ACCEPT, assigns the MM state
\* and reaches `await self.start_pdu_session()`
HandlerRunAccept(i) ==
    /\ Executes(i)
    /\ h_tasks[i][1] = "nas"
    /\ h_tasks[i][3] = "entered"
    /\ NasDecode(h_tasks[i][2]).ok
    /\ NasDecode(h_tasks[i][2]).msg.message_type = REGISTRATION_ACCEPT
    /\ UeBecomes([UeSelf EXCEPT
                    !.mm_state = "MM_REGISTERED",
                    !.mm_substate = "MM_REGISTERED_NORMAL_SERVICE",
                    !.last_registration_time = Some(now)])
    /\ h_tasks' = [h_tasks EXCEPT ![i][3] = "start_pdu_session"]
    /\ h_running' = RunningAfter(i, "start_pdu_session")
    /\ UNCHANGED <<ue_call, rrc_sent, nas_sent, idle_since>>
    /\ UNCHANGED <<timerVars, smVars, ue_hist, gnbVars, ngapVars, srvVars,
                 codecVars, secVars, rtVars>>

\* start_pdu_session runs to its end and handle_nas_message returns
HandlerRunPduSession(i) ==
    /\ Executes(i)
    /\ h_tasks[i][3] = "start_pdu_session"
    /\ UeHandleNasMessage(h_tasks[i][2])
    /\ h_tasks' = [h_tasks EXCEPT ![i][3] = "returned"]
    /\ h_running' = RunningAfter(i, "returned")
    /\ UNCHANGED <<timerVars, smVars, ue_hist, gnbVars, ngapVars, srvVars,
                 codecVars, secVars, rtVars>>

\* handle_nas_message runs from its first line to its return on any other
\* message
HandlerRunNas(i) ==
    /\ Executes(i)
    /\ h_tasks[i][1] = "nas"
    /\ h_tasks[i][3] = "entered"
    /\ ~(/\ NasDecode(h_tasks[i][2]).ok
         /\ NasDecode(h_tasks[i][2]).msg.message_type = REGISTRATION_ACCEPT)
    /\ UeHandleNasMessage(h_tasks[i][2])
    /\ h_tasks' = [h_tasks EXCEPT ![i][3] = "returned"]
    /\ h_running' = RunningAfter(i, "returned")
    /\ UNCHANGED <<timerVars, smVars, ue_hist, gnbVars, ngapVars, srvVars,
                 codecVars, secVars, rtVars>>

\* the callers of one UE's handlers under one event loop
SeqNext ==
    \/ SetOnNasMessage
    \/ \E call \in HandlerInputs : HandlerCall(call[1], call[2])
    \/ \E i \in 1..MaxTasks : HandlerBegin(i)
    \/ \E i \in 1..MaxTasks : HandlerRunRrc(i)
    \/ \E i \in 1..MaxTasks : HandlerRunAccept(i)
    \/ \E i \in 1..MaxTasks : HandlerRunPduSession(i)
    \/ \E i \in 1..MaxTasks : HandlerRunNas(i)

\* ------------------------------------------------------------------------
\* The management endpoints (server/__init__.py)
\* ------------------------------------------------------------------------
\* an endpoint call; n alternates from call to call
SrvCall(op, ue_id, ret, n) == [op |-> op, id |-> ue_id, ret |-> ret, n |-> n]

\* the answers that are HTTPException(status_code=404, ...)
NotRunning == "404 gNB not running"
UeNotFound == "404 UE not found"

SrvInit ==
    /\ srv_gnb = FALSE
    /\ srv_pc = "idle"
    /\ srv_call = SrvCall("init", "", "", 0)

\* start_gnb while a connected gNB exists
SrvStartGnbRunning ==
    /\ srv_pc = "idle"
    /\ gnb_pc = "idle"
    /\ srv_gnb /\ amf_connected
    /\ srv_call' = SrvCall("start_gnb", "", "already_running", 1 - srv_call.n)
    /\ UNCHANGED <<srv_gnb, srv_pc>>
    /\ UNCHANGED <<timerVars, smVars, ueVars, ue_hist, gnbVars, ngapVars,
                   loopVars, codecVars, secVars, rtVars>>

\* start_gnb otherwise, up to `await gnb_simulation.start()`: a new
\* GnbSimulation object replaces the global
SrvStartGnbBegin ==
    /\ srv_pc = "idle"
    /\ gnb_pc = "idle"
    /\ ~(srv_gnb /\ amf_connected)
    /\ starts < MaxStarts
    /\ srv_gnb' = TRUE
    /\ srv_pc' = "starting"
    /\ srv_call' = SrvCall("start_gnb", "", "", 1 - srv_call.n)
    /\ gnb_state' = "GNB_POWERING_ON"
    /\ ngap_state' = "NGAP_IDLE"
    /\ amf_connected' = FALSE
    /\ gnb_snapshot' = GnbSnapshot("GNB_INVALID", FALSE, "NGAP_IDLE")
    /\ ngap_connection' = None
    /\ ues' = << >>
    /\ metrics' = Metrics(0, 0)
    /\ gnb_call' = GnbCall("init", RetNone)
    /\ UNCHANGED <<gnb_pc, recv_tasks, amf_received, starts, last_connect>>
    /\ UNCHANGED <<timerVars, smVars, ueVars, ue_hist, ngapVars, loopVars,
                 codecVars, secVars, rtVars>>

\* start_gnb after start() has returned
SrvStartGnbEnd ==
    /\ srv_pc = "starting"
    /\ gnb_pc = "idle"
    /\ gnb_call.op = "start"
    /\ srv_gnb' = amf_connected
    /\ srv_pc' = "idle"
    /\ srv_call' = [srv_call EXCEPT
                       !.ret = IF amf_connected THEN "started" ELSE "failed"]
    /\ UNCHANGED <<timerVars, smVars, ueVars, ue_hist, gnbVars, ngapVars,
                   loopVars, codecVars, secVars, rtVars>>

\* stop_gnb without a gNB
SrvStopGnbNone ==
    /\ srv_pc = "idle"
    /\ gnb_pc = "idle"
    /\ ~srv_gnb
    /\ srv_call' = SrvCall("stop_gnb", "", "stopped", 1 - srv_call.n)
    /\ UNCHANGED <<srv_gnb, srv_pc>>
    /\ UNCHANGED <<timerVars, smVars, ueVars, ue_hist, gnbVars, ngapVars,
                   loopVars, codecVars, secVars, rtVars>>

\* stop_gnb with a gNB, up to `await gnb_simulation.stop()`
SrvStopGnbBegin ==
    /\ srv_pc = "idle"
    /\ gnb_pc = "idle"
    /\ srv_gnb
    /\ srv_pc' = "stopping"
    /\ srv_call' = SrvCall("stop_gnb", "", "", 1 - srv_call.n)
    /\ UNCHANGED srv_gnb
    /\ UNCHANGED <<timerVars, smVars, ueVars, ue_hist, gnbVars, ngapVars,
                   loopVars, codecVars, secVars, rtVars>>

\* stop_gnb after stop() has returned
SrvStopGnbEnd ==
    /\ srv_pc = "stopping"
    /\ gnb_call.op = "stop"
    /\ srv_gnb' = FALSE
    /\ srv_pc' = "idle"
    /\ srv_call' = [srv_call EXCEPT !.ret = "stopped"]
    /\ UNCHANGED <<timerVars, smVars, ueVars, ue_hist, gnbVars, ngapVars,
                   loopVars, codecVars, secVars, rtVars>>

\* add_ue(config): the new UeSimulation enters the table under a fresh id
\* and its get_state() is returned
SrvAddUe(ue_id, imsi) ==
    /\ srv_pc = "idle"
    /\ gnb_pc = "idle"
    /\ ue_id \notin DOMAIN ues
    /\ ues' = IF srv_gnb
              THEN PutUe(ues, ue_id, GetStateResult(NewUe(imsi, DefaultDnn)).ue)
              ELSE ues
    /\ srv_call' = SrvCall("add_ue", ue_id,
                           IF srv_gnb THEN "added" ELSE NotRunning,
                           1 - srv_call.n)
    /\ UNCHANGED <<srv_gnb, srv_pc>>
    /\ UNCHANGED <<gnb_state, ngap_state, amf_connected, gnb_snapshot,
                   ngap_connection, metrics, gnb_pc, recv_tasks, amf_received,
                   starts, last_connect, gnb_call>>
    /\ UNCHANGED <<timerVars, smVars, ueVars, ue_hist, ngapVars, loopVars,
                 codecVars, secVars, rtVars>>

\* the answer of trigger_registration(ue_id)
TriggerStatus(running, table, ue_id) ==
    IF ~running THEN NotRunning
    ELSE IF ue_id \notin DOMAIN table THEN UeNotFound
    ELSE "registration_started"

\* trigger_registration(ue_id)
SrvTriggerRegistration(ue_id) ==
    LET status == TriggerStatus(srv_gnb, ues, ue_id)
    IN  /\ srv_pc = "idle"
        /\ gnb_pc = "idle"
        /\ ues' = IF status = "registration_started"
                  THEN PutUe(ues, ue_id,
                             StartRegistration(ues[ue_id], "gnb-1",
                                               <<0, 0, 0, 0, 0>>).ue)
                  ELSE ues
        /\ srv_call' = SrvCall("trigger_registration", ue_id, status,
                               1 - srv_call.n)
        /\ UNCHANGED <<srv_gnb, srv_pc>>
        /\ UNCHANGED <<gnb_state, ngap_state, amf_connected, gnb_snapshot,
                       ngap_connection, metrics, gnb_pc, recv_tasks,
                       amf_received, starts, last_connect, gnb_call>>
        /\ UNCHANGED <<timerVars, smVars, ueVars, ue_hist, ngapVars, loopVars,
                 codecVars, secVars, rtVars>>

\* the answer of remove_ue(ue_id)
RemoveStatus_lenient(running, table, ue_id) ==
    IF ~running THEN NotRunning ELSE "removed"
RemoveStatus(running, table, ue_id) ==
    IF ~running THEN NotRunning
    ELSE IF ue_id \notin DOMAIN table THEN UeNotFound
    ELSE "removed"

\* del gnb_simulation.ues[ue_id]
TableWithout(table, ue_id) ==
    [id \in (DOMAIN table) \ {ue_id} |-> table[id]]

\* remove_ue(ue_id)
SrvRemoveUe(ue_id) ==
    LET status == RemoveStatus(srv_gnb, ues, ue_id)
    IN  /\ srv_pc = "idle"
        /\ gnb_pc = "idle"
        /\ ues' = IF status = "removed" THEN TableWithout(ues, ue_id) ELSE ues
        /\ srv_call' = SrvCall("remove_ue", ue_id, status, 1 - srv_call.n)
        /\ UNCHANGED <<srv_gnb, srv_pc>>
        /\ UNCHANGED <<gnb_state, ngap_state, amf_connected, gnb_snapshot,
                       ngap_connection, metrics, gnb_pc, recv_tasks,
                       amf_received, starts, last_connect, gnb_call>>
        /\ UNCHANGED <<timerVars, smVars, ueVars, ue_hist, ngapVars, loopVars,
                 codecVars, secVars, rtVars>>

\* the endpoints, with start() and stop() of the gNB running inside
\* start_gnb and stop_gnb
SrvNext ==
    \/ SrvStartGnbRunning
    \/ SrvStartGnbBegin
    \/ srv_pc = "starting" /\ gnb_call.op = "init" /\ GnbStartConfigure
    \/ srv_pc = "starting" /\ GnbStartWaitN2
    \/ srv_pc = "starting" /\ \E accept \in BOOLEAN : GnbStartConnect(accept)
    \/ srv_pc = "starting" /\ GnbStartLoop
    \/ srv_pc = "starting" /\ GnbStartSendSetup
    \/ srv_pc = "starting" /\ GnbStartReady
    \/ SrvStartGnbEnd
    \/ SrvStopGnbNone
    \/ SrvStopGnbBegin
    \/ srv_pc = "stopping" /\ gnb_call.op # "stop" /\ GnbStop
    \/ SrvStopGnbEnd
    \/ srv_pc = "idle" /\ \E i \in 1..MaxStarts : GnbReceiveLoop(i)
    \/ \E ue_id \in UeIds, imsi \in ImsiSet : SrvAddUe(ue_id, imsi)
    \/ \E ue_id \in UeIds : SrvTriggerRegistration(ue_id)
    \/ \E ue_id \in UeIds : SrvRemoveUe(ue_id)

\* ------------------------------------------------------------------------
\* Messages taken through encode and decode (core/rrc.py, core/nas.py)
\* ------------------------------------------------------------------------
PayloadBytes == {0, 255}

\* the byte strings of at most MaxPayload bytes
Payloads == UNION {[1..n -> PayloadBytes] : n \in 0..MaxPayload}

\* NasMessage.security_header: plain, and three protected values
SecurityHeaders == {0, 1, 66, 255}

\* NasMessage.encode
NasMessageEncode(msg) ==
    <<msg.security_header, msg.message_type>> \o
    (IF msg.security_header = 0 THEN msg.plain_message
     ELSE msg.encrypted_message)

\* the RrcMessage objects with a 2-bit transaction id
RrcMessages ==
    {RrcMsg(tid, type, payload) :
        tid \in TransactionIds, type \in RrcTypeValues, payload \in Payloads}

\* the NasMessage objects whose payload sits in the field their security
\* header selects
NasMessages ==
    {NasMsg(0, type, payload, << >>) :
        type \in NasTypeValues, payload \in Payloads}
    \cup {NasMsg(header, type, << >>, payload) :
            header \in SecurityHeaders \ {0}, type \in NasTypeValues,
            payload \in Payloads}

\* the default message, not yet encoded
CodecInit ==
    /\ cd_layer = "rrc"
    /\ cd_msg = RrcMsg(0, RRC_SETUP_REQUEST, << >>)
    /\ cd_wire = None
    /\ cd_out = None

\* any message of either container, not yet encoded
CodecInitAny ==
    /\ \/ cd_layer = "rrc" /\ cd_msg \in RrcMessages
       \/ cd_layer = "nas" /\ cd_msg \in NasMessages
    /\ cd_wire = None
    /\ cd_out = None

\* RrcMessage.encode()
RrcEncodeCall ==
    /\ cd_layer = "rrc"
    /\ cd_wire = None
    /\ cd_wire' = Some(RrcEncode(cd_msg))
    /\ UNCHANGED <<cd_layer, cd_msg, cd_out>>
    /\ UNCHANGED <<timerVars, smVars, ueVars, ue_hist, gnbVars, ngapVars,
                   loopVars, srvVars, secVars, rtVars>>

\* RrcMessage.decode(data)
RrcDecodeCall ==
    /\ cd_layer = "rrc"
    /\ cd_wire # None
    /\ cd_out = None
    /\ cd_out' = Some(RrcDecode(cd_wire[1]))
    /\ UNCHANGED <<cd_layer, cd_msg, cd_wire>>
    /\ UNCHANGED <<timerVars, smVars, ueVars, ue_hist, gnbVars, ngapVars,
                   loopVars, srvVars, secVars, rtVars>>

\* NasMessage.encode()
NasEncodeCall ==
    /\ cd_layer = "nas"
    /\ cd_wire = None
    /\ cd_wire' = Some(NasMessageEncode(cd_msg))
    /\ UNCHANGED <<cd_layer, cd_msg, cd_out>>
    /\ UNCHANGED <<timerVars, smVars, ueVars, ue_hist, gnbVars, ngapVars,
                   loopVars, srvVars, secVars, rtVars>>

\* NasMessage.decode(data)
NasDecodeCall ==
    /\ cd_layer = "nas"
    /\ cd_wire # None
    /\ cd_out = None
    /\ cd_out' = Some(NasDecode(cd_wire[1]))
    /\ UNCHANGED <<cd_layer, cd_msg, cd_wire>>
    /\ UNCHANGED <<timerVars, smVars, ueVars, ue_hist, gnbVars, ngapVars,
                   loopVars, srvVars, secVars, rtVars>>

\* NasSecurityContext(): the dataclass defaults
NewSecurityContext == [count |-> 0, bearer |-> 0, direction |-> 0]

\* EIA0..EIA2 (algorithm_type 0) and EEA0..EEA2 (any other type)
Algorithms == {<<at, id>> : at \in {0, 1}, id \in 0..2}

\* data[8:]
Tail8(data) == IF Len(data) <= 8 THEN << >> ELSE SubSeq(data, 9, Len(data))

\* NasSecurity.encode_nas_message(ctx, msg, algorithm_type, algorithm_id)
SecEncode(ctx, msg, algorithm_type, algorithm_id) ==
    LET encoded == NasMessageEncode(msg)
    IN  IF algorithm_id = 0
        THEN <<0>> \o encoded
        ELSE IF algorithm_type = 0
        THEN <<64 + (algorithm_id % 16), 0, 0, 0, 0, 0>> \o Tail2(encoded)
        ELSE <<32 + (algorithm_id % 16), 0, ctx.count % 16,
               (ctx.count \div 256) % 256, (ctx.count \div 65536) % 256,
               ctx.bearer + 32 * ctx.direction>> \o Tail2(encoded)

\* NasSecurity.decode_nas_message(ctx, data); ok is FALSE where
\* ENasMessageType(message_type) raises ValueError
SecDecode(ctx, data) ==
    IF Len(data) < 2
    THEN [ok |-> TRUE, msg |-> NasMsg(0, REGISTRATION_REQUEST, << >>, << >>)]
    ELSE IF data[2] \notin NasTypeValues
    THEN [ok |-> FALSE, msg |-> NasMsg(0, REGISTRATION_REQUEST, << >>, << >>)]
    ELSE [ok |-> TRUE,
          msg |-> NasMsg(data[1], data[2],
                         IF (data[1] \div 16) % 4 # 0 THEN Tail8(data)
                         ELSE Tail2(data),
                         << >>)]

\* the context's count after a call of either function: neither assigns it
CountAfterCall(count) == count

SecInit ==
    /\ sec_ctx = NewSecurityContext
    /\ sec_alg = <<0, 0>>
    /\ sec_calls = 0

\* a plain NasMessage about to be protected with any algorithm, under a
\* context with any bearer and direction and a count that fills one, two
\* or three bytes
SecInitAny ==
    /\ cd_layer = "sec"
    /\ cd_msg \in {m \in NasMessages : m.security_header = 0}
    /\ cd_wire = None
    /\ cd_out = None
    /\ sec_ctx \in [count : {0, 5, 70000}, bearer : {0, 1}, direction : {0, 1}]
    /\ sec_alg \in Algorithms
    /\ sec_calls = 0

\* NasSecurity.encode_nas_message(sec_ctx, cd_msg, ...)
SecEncodeCall ==
    /\ cd_layer = "sec"
    /\ cd_wire = None
    /\ cd_wire' = Some(SecEncode(sec_ctx, cd_msg, sec_alg[1], sec_alg[2]))
    /\ sec_ctx' = [sec_ctx EXCEPT !.count = CountAfterCall(@)]
    /\ sec_calls' = sec_calls + 1
    /\ UNCHANGED <<cd_layer, cd_msg, cd_out, sec_alg>>
    /\ UNCHANGED <<timerVars, smVars, ueVars, ue_hist, gnbVars, ngapVars,
                   loopVars, srvVars, rtVars>>

\* NasSecurity.decode_nas_message(sec_ctx, data)
SecDecodeCall ==
    /\ cd_layer = "sec"
    /\ cd_wire # None
    /\ cd_out = None
    /\ cd_out' = Some(SecDecode(sec_ctx, cd_wire[1]))
    /\ sec_ctx' = IF SecDecode(sec_ctx, cd_wire[1]).ok
                  THEN [sec_ctx EXCEPT !.count = CountAfterCall(@)]
                  ELSE sec_ctx
    /\ sec_calls' = IF SecDecode(sec_ctx, cd_wire[1]).ok
                    THEN sec_calls + 1 ELSE sec_calls
    /\ UNCHANGED <<cd_layer, cd_msg, cd_wire, sec_alg>>
    /\ UNCHANGED <<timerVars, smVars, ueVars, ue_hist, gnbVars, ngapVars,
                   loopVars, srvVars, rtVars>>

CodecNext ==
    \/ RrcEncodeCall
    \/ RrcDecodeCall
    \/ NasEncodeCall
    \/ NasDecodeCall
    \/ SecEncodeCall
    \/ SecDecodeCall

\* ------------------------------------------------------------------------
\* RrcTask, the gNB-side RRC handler (core/rrc.py)
\* ------------------------------------------------------------------------
RtUeIds == {1, 2}

\* RrcStateMachine()
NewStateMachine ==
    [state |-> "idle", setup_complete_received |-> FALSE,
     reconfiguration_complete_received |-> FALSE]

\* RrcSetup().encode() and RrcReconfiguration().encode()
RrcSetupEncode == <<29, 1, 0, 36, 12, 0, 4, 0, 64, 0, 2, 2, 0>>
RrcReconfigurationEncode == <<1>>

RtCall(op, ue_id, data, ret) ==
    [op |-> op, id |-> ue_id, ret |-> ret, data |-> data]

\* what handle_rrc_message returns for an UL_INFORMATION_TRANSFER
Forwarded_none(msg) == RetNone
Forwarded(msg) == RetBytes(msg.payload)

\* the state a RECONFIGURATION_COMPLETE leaves in the UE's record
CompleteState(sm) == "connected"

\* handle_rrc_message(ue_id, data) on the table conns: the table after it
\* and what it returns
RtResult(conns, ue_id, data) ==
    LET dec == RrcDecode(data)
        type == dec.msg.message_type
        known == ue_id \in DOMAIN conns
    IN  IF ~dec.ok THEN [conns |-> conns, ret |-> RetRaise]
        ELSE IF type = RRC_SETUP_REQUEST
        THEN [conns |-> PutUe(conns, ue_id, NewStateMachine),
              ret |-> RetBytes(RrcEncode(RrcMsg(0, RRC_SETUP, RrcSetupEncode)))]
        ELSE IF type = RRC_SETUP_COMPLETE /\ known
        THEN [conns |-> [conns EXCEPT ![ue_id].setup_complete_received = TRUE],
              ret |-> RetBytes(RrcEncode(RrcMsg(0, RRC_RECONFIGURATION,
                                                RrcReconfigurationEncode)))]
        ELSE IF type = RRC_CONN_RECONFIGURATION_COMPLETE /\ known
        THEN [conns |-> [conns EXCEPT
                            ![ue_id].reconfiguration_complete_received = TRUE,
                            ![ue_id].state = CompleteState(conns[ue_id])],
              ret |-> RetNone]
        ELSE IF type = RRC_UL_INFORMATION_TRANSFER
        THEN [conns |-> conns, ret |-> Forwarded(dec.msg)]
        ELSE [conns |-> conns, ret |-> RetNone]

RtInit ==
    /\ ue_connections = << >>
    /\ rt_call = RtCall("init", 0, << >>, RetNone)

\* RrcTask.handle_rrc_message(ue_id, data)
RtHandleRrcMessage(ue_id, data) ==
    /\ ue_connections' = RtResult(ue_connections, ue_id, data).conns
    /\ rt_call' = RtCall("handle_rrc_message", ue_id, data,
                         RtResult(ue_connections, ue_id, data).ret)
    /\ UNCHANGED <<timerVars, smVars, ueVars, ue_hist, gnbVars, ngapVars,
                   loopVars, srvVars, codecVars, secVars>>

\* RrcTask.get_connected_ue_count()
RtGetConnectedUeCount ==
    /\ rt_call' = RtCall("get_connected_ue_count", 0, << >>,
                     Cardinality({id \in DOMAIN ue_connections :
                                     ue_connections[id].state = "connected"}))
    /\ UNCHANGED ue_connections
    /\ UNCHANGED <<timerVars, smVars, ueVars, ue_hist, gnbVars, ngapVars,
                   loopVars, srvVars, codecVars, secVars>>

\* RrcTask.release_ue(ue_id)
RtReleaseUe(ue_id) ==
    /\ ue_connections' = TableWithout(ue_connections, ue_id)
    /\ rt_call' = RtCall("release_ue", ue_id, << >>,
                         RetBool(ue_id \in DOMAIN ue_connections))
    /\ UNCHANGED <<timerVars, smVars, ueVars, ue_hist, gnbVars, ngapVars,
                   loopVars, srvVars, codecVars, secVars>>

\* what UEs send up: the four message types RrcTask reacts to, the
\* transfer with an embedded NAS payload, a type it ignores and an unknown
\* type byte
RtInboundBytes ==
    {RrcEncode(RrcMsg(0, type, << >>)) :
        type \in {RRC_SETUP_REQUEST, RRC_SETUP_COMPLETE,
                  RRC_CONN_RECONFIGURATION_COMPLETE,
                  RRC_UL_INFORMATION_TRANSFER, RRC_RELEASE}}
    \cup {RrcEncode(RrcMsg(1, RRC_UL_INFORMATION_TRANSFER, <<126, 0, 65>>)),
          <<1, 0>>}

RtNext ==
    \/ \E ue_id \in RtUeIds, data \in RtInboundBytes :
          RtHandleRrcMessage(ue_id, data)
    \/ RtGetConnectedUeCount
    \/ \E ue_id \in RtUeIds : RtReleaseUe(ue_id)

\* ------------------------------------------------------------------------
\* Specifications
\* ------------------------------------------------------------------------
\* every component freshly constructed, the UE with the default UeConfig
Init ==
    /\ TimerInit
    /\ SmInit
    /\ UeInitWith(DefaultImsi, DefaultDnn)
    /\ ue_hist = << >>
    /\ GnbInit
    /\ NtInit
    /\ LoopInit
    /\ SrvInit
    /\ CodecInit
    /\ SecInit
    /\ RtInit

\* the same, the UE constructed with any of the IMSIs
InitUe ==
    /\ TimerInit
    /\ SmInit
    /\ \E imsi \in ImsiSet : UeInitWith(imsi, DefaultDnn)
    /\ ue_hist = << >>
    /\ GnbInit
    /\ NtInit
    /\ LoopInit
    /\ SrvInit
    /\ CodecInit
    /\ SecInit
    /\ RtInit

\* the same, the UE constructed with any of the IMSIs and any of the DNNs
InitUeConfig ==
    /\ TimerInit
    /\ SmInit
    /\ \E imsi \in ImsiSet, dnn \in DnnSet : UeInitWith(imsi, dnn)
    /\ ue_hist = << >>
    /\ GnbInit
    /\ NtInit
    /\ LoopInit
    /\ SrvInit
    /\ CodecInit
    /\ SecInit
    /\ RtInit

\* the same, with any message about to be put through its codec
InitCodec ==
    /\ TimerInit
    /\ SmInit
    /\ UeInitWith(DefaultImsi, DefaultDnn)
    /\ ue_hist = << >>
    /\ GnbInit
    /\ NtInit
    /\ LoopInit
    /\ SrvInit
    /\ \/ CodecInitAny /\ SecInit
       \/ SecInitAny
    /\ RtInit

SpecTimer == Init /\ [][TimerNext]_vars

SpecRrc == Init /\ [][RrcNext]_vars

SpecUe == InitUeConfig /\ [][UeNext]_vars

SpecUeRead == InitUe /\ [][UeReadNext]_vars

SpecGnb == Init /\ [][GnbNext]_vars

SpecEquiv == InitUe /\ [][EquivNext]_vars

SpecLife == Init /\ [][LifeNext]_vars

SpecSeq == Init /\ [][SeqNext]_vars

SpecSrv == Init /\ [][SrvNext]_vars

SpecCodec == InitCodec /\ [][CodecNext]_vars

SpecRrcTask == Init /\ [][RtNext]_vars

\* ------------------------------------------------------------------------
\* Timer subsystem: properties
\* ------------------------------------------------------------------------
ReturnedUids(call) == {r.uid : r \in call.returned}

\* C1: check_expired delivers each expiry at most once: every timer it
\* returns is removed in the same call, so get(id) yields nothing for it
\* right after the call, and no later check_expired call returns a timer
\* that an earlier call already returned.
C1_AtMostOnce ==
    /\ [](t_call.op = "check_expired" =>
             \A r \in t_call.returned : Get(r.id) = None)
    /\ [][CheckExpired => (ReturnedUids(t_call') \cap delivered = {})]_vars

\* a check_expired call that returns a timer, made after an earlier call
\* delivered another one, with a timer still in the manager
C1_Witness ==
    /\ t_call.op = "check_expired"
    /\ t_call.returned # {}
    /\ delivered \ ReturnedUids(t_call) # {}
    /\ DOMAIN timers # {}

\* C2 (as stated): over the whole lifetime of a manager, clear() included,
\* allocate returns ids that start at 1, strictly increase and are never
\* returned twice.
C2_NeverReused ==
    /\ (alloc_ids # << >> => alloc_ids[1] = 1)
    /\ \A i, j \in DOMAIN alloc_ids : i < j => alloc_ids[i] < alloc_ids[j]

\* C2 (amended): between two clear() calls, and from construction to the
\* first clear(), allocate returns 1, 2, 3, ...: the ids start at 1,
\* strictly increase and none is returned twice.
C2_FreshSinceClear ==
    \A k \in DOMAIN alloc_ids : k > clear_mark => alloc_ids[k] = k - clear_mark

\* two allocations after a clear() that followed an allocation
C2_Witness ==
    /\ clear_mark >= 1
    /\ Len(alloc_ids) >= clear_mark + 2
    /\ t_call.op = "allocate"

\* C3: a timer is expired iff it is running and now - started_at >= timeout;
\* a freshly allocated timer and a stopped timer are not running and are
\* never returned by check_expired; a started timer is running and is
\* listed by running().
C3_RunningExpired ==
    /\ \A id \in DOMAIN timers :
          LET t == timers[id]
              op == t.op
          IN  /\ TimerIsExpired(t, now) <=>
                    (TimerIsRunning(t) /\ now - t.started_at[1] >= t.timeout)
              /\ op \in {"allocate", "stop"} =>
                    (~TimerIsRunning(t) /\ ~TimerIsExpired(t, now) /\ id \notin Running)
              /\ op = "start" =>
                    (TimerIsRunning(t) /\ id \in Running /\ t.started_at # None)
    /\ t_call.op = "check_expired" =>
          \A r \in t_call.returned : r.op \notin {"allocate", "stop"}

\* a stopped timer that was started before sits next to a started one
\* right after a check_expired call that returned a timer
C3_Witness ==
    /\ t_call.op = "check_expired"
    /\ t_call.returned # {}
    /\ \E id \in DOMAIN timers : timers[id].op = "stop"
    /\ \E id \in DOMAIN timers : timers[id].op = "start"

\* C4: start(id) and stop(id) with an id that is not in the manager return
\* False and leave the timer table and the id counter unchanged.
C4_UnknownIdSilent ==
    [][\A id \in TimerIds :
          (id \notin DOMAIN timers /\ (Start(id) \/ Stop(id))) =>
             (t_call'.ret = FALSE /\ timers' = timers /\ next_id' = next_id)]_vars

\* start or stop was just called with an unknown id on a non-empty manager
C4_Witness ==
    /\ t_call.op \in {"start", "stop"}
    /\ t_call.id \notin DOMAIN timers
    /\ t_call.ret = FALSE
    /\ DOMAIN timers # {}

C6_ClearResets ==
    /\ [][Clear =>
             /\ \A id \in TimerIds : Get(id)' = None
             /\ Running' = {}
             /\ ExpiredIds(timers', now') = {}
             /\ next_id' = 1]_vars
    /\ [][\A timeout \in TimeoutSet :
             (Allocate(timeout) /\ Len(alloc_ids) = clear_mark) => t_call'.id = 1]_vars

\* the first allocate after a clear() that followed two allocations
C6_Witness ==
    /\ t_call.op = "allocate"
    /\ clear_mark >= 2
    /\ Len(alloc_ids) = clear_mark + 1

\* ------------------------------------------------------------------------
\* RRC state machine and UE entity: properties
\* ------------------------------------------------------------------------
\* C7: from IDLE, SETUP then RECONFIGURATION then RELEASE moves the machine
\* IDLE -> CONNECTING -> CONNECTED -> IDLE and returns SETUP_COMPLETE, then
\* RECONFIGURATION_COMPLETE, then nothing, each response carrying the
\* transaction id of the message it answers.
C7_Scenario ==
    /\ sm_hist = <<RRC_SETUP>> =>
          /\ sm_state = "connecting"
          /\ sm_resp = Some(RrcMsg(sm_in[1].rrc_transaction_id,
                                   RRC_SETUP_COMPLETE, << >>))
    /\ sm_hist = <<RRC_SETUP, RRC_RECONFIGURATION>> =>
          /\ sm_state = "connected"
          /\ sm_resp = Some(RrcMsg(sm_in[1].rrc_transaction_id,
                                   RRC_CONN_RECONFIGURATION_COMPLETE, << >>))
    /\ sm_hist = <<RRC_SETUP, RRC_RECONFIGURATION, RRC_RELEASE>> =>
          /\ sm_state = "idle"
          /\ sm_resp = None

\* the three messages were handled, the last with a non-zero transaction id
C7_Witness ==
    /\ sm_hist = <<RRC_SETUP, RRC_RECONFIGURATION, RRC_RELEASE>>
    /\ sm_in[1].rrc_transaction_id = 2
    /\ sm_state = "idle"

SmTransition(state, type) ==
    \/ state = "idle" /\ type = RRC_SETUP
    \/ state = "connecting" /\ type = RRC_RECONFIGURATION
    \/ state = "connected" /\ type = RRC_RELEASE

\* C8: every (state, message type) pair other than (IDLE, SETUP),
\* (CONNECTING, RECONFIGURATION) and (CONNECTED, RELEASE) is a no-op:
\* handle_message returns nothing and leaves the state unchanged; the state
\* is always one of idle, connecting, connected.
C8_OtherPairsNoOp ==
    /\ [](sm_state \in {"idle", "connecting", "connected"})
    /\ [][(sm_hist' # sm_hist
              /\ ~SmTransition(sm_state, sm_in'[1].message_type)) =>
             (sm_state' = sm_state /\ sm_resp' = None)]_vars

\* a RECONFIGURATION handled while connected was a no-op
C8_Witness ==
    /\ Len(sm_hist) = 3
    /\ sm_hist[3] = RRC_RECONFIGURATION
    /\ sm_state = "connected"
    /\ sm_resp = None

\* C9 (as stated): for every sequence of inbound RRC messages delivered to a
\* fresh UE, the types of the responses of UeSimulation.handle_rrc_message
\* (or their absence) equal those RrcStateMachine.handle_message produces
\* from IDLE on the same messages.
C9_UeFollowsStateMachine ==
    \A i \in DOMAIN ue_hist : ue_hist[i].ue = ue_hist[i].sm

\* C10 (as stated): start(gnb) sends exactly one RRC SETUP_REQUEST whose
\* establishment cause is MO_SIGNAL, records the gNB as connected gNB and
\* moves MM state to REGISTERED_INITIATED, leaving RRC, CM and SM state
\* unchanged.
C10_StartSendsSetupRequest ==
    [][\A gnb \in GnbRefs, rnd \in RandomTokens :
          UeStart(gnb, rnd) =>
             /\ Len(rrc_sent') = 1
             /\ RrcDecode(rrc_sent'[1]).msg.message_type = RRC_SETUP_REQUEST
             /\ RrcDecode(rrc_sent'[1]).msg.payload[2] = MO_SIGNAL
             /\ connected_gnb_id' = Some(gnb)
             /\ mm_state' = "MM_REGISTERED_INITIATED"
             /\ UNCHANGED <<rrc_state, cm_state, sm_state_ue>>]_vars

\* ------------------------------------------------------------------------
\* UE entity: registration, PDU session and state reads
\* ------------------------------------------------------------------------
\* the NAS PDU inside the bytes of an RRC Setup Complete, else nothing
NasOfRrc(data) ==
    IF Len(data) >= 2 /\ data[2] = RRC_SETUP_COMPLETE
    THEN DedicatedNas(RrcDecode(data).msg.payload)
    ELSE << >>

IsRegistrationRequest(pdu) == Len(pdu) >= 2 /\ pdu[2] = REGISTRATION_REQUEST

\* the NAS PDUs the last call on the UE gave out: inside the RRC bytes it
\* returned or passed to on_rrc_message, or passed to on_nas_message
EmittedNas ==
    (IF ue_call.ret.kind = "bytes" THEN {NasOfRrc(ue_call.ret.data)} ELSE {})
    \cup {NasOfRrc(rrc_sent[i]) : i \in DOMAIN rrc_sent}
    \cup {nas_sent[i] : i \in DOMAIN nas_sent}

\* C11 (as stated): when a UE in RRC_IDLE receives an RRC SETUP,
\* handle_rrc_message moves RRC state and CM state to CONNECTED and returns
\* a SETUP_COMPLETE that embeds a Registration Request NAS PDU whose
\* message-type byte is 0x41.
C11_SetupReturnsRegistration ==
    [][\A tid \in TransactionIds :
          (rrc_state = "RRC_IDLE"
              /\ UeHandleRrc(RrcEncode(RrcMsg(tid, RRC_SETUP, << >>)))) =>
             /\ rrc_state' = "RRC_CONNECTED"
             /\ cm_state' = "CM_CONNECTED"
             /\ ue_call'.ret.kind = "bytes"
             /\ RrcDecode(ue_call'.ret.data).msg.message_type = RRC_SETUP_COMPLETE
             /\ IsRegistrationRequest(NasOfRrc(ue_call'.ret.data))]_vars

\* C12: a Registration Request NAS PDU is given out by the UE only at a
\* moment when its rrc_state is RRC_CONNECTED.
C12_RegistrationOnlyConnected ==
    \A pdu \in EmittedNas :
        IsRegistrationRequest(pdu) => rrc_state = "RRC_CONNECTED"

\* handle_rrc_message has just returned a Setup Complete that carries a
\* Registration Request
C12_Witness ==
    /\ ue_call.op = "handle_rrc_message"
    /\ ue_call.ret.kind = "bytes"
    /\ IsRegistrationRequest(NasOfRrc(ue_call.ret.data))
    /\ rrc_state = "RRC_CONNECTED"

\* the bytes of a PDU Session Establishment Request with PDU session type
\* IE 1 whose last IE is the DNN dnn
IsPduSessionRequest(pdu, dnn) ==
    /\ Len(pdu) >= 5 + 2 + Len(dnn)
    /\ pdu[2] = PDU_SESSION_ESTABLISHMENT_REQUEST
    /\ SubSeq(pdu, 3, 5) = <<9, 1, 1>>
    /\ SubSeq(pdu, Len(pdu) - Len(dnn) - 1, Len(pdu)) = <<37, Len(dnn)>> \o dnn

\* C13 (as stated): on a REGISTRATION_ACCEPT, handle_nas_message moves MM
\* state to REGISTERED, moves SM state to PENDING and emits exactly one
\* PDU_SESSION_ESTABLISHMENT_REQUEST (type byte 0xA1) with PDU-session-type
\* IE 1 and the configured DNN in ASCII.
C13_AcceptStartsPduSession ==
    [][\A sh \in {0, 64} :
          UeHandleNas(<<sh, REGISTRATION_ACCEPT>>) =>
             /\ mm_state' = "MM_REGISTERED"
             /\ sm_state_ue' = "SM_PENDING"
             /\ Len(nas_sent') = 1
             /\ IsPduSessionRequest(nas_sent'[1], ue_dnn)]_vars

\* C14: on a PDU_SESSION_ESTABLISHMENT_ACCEPT, handle_nas_message moves SM
\* state to ACTIVE and appends one session descriptor with id 1, type IPv4
\* and the configured DNN as APN; MM, RRC and CM state stay as they were,
\* nothing is returned and nothing is sent.
C14_AcceptRecordsSession ==
    [][\A body \in {<< >>, <<9, 1, 1>>} :
          UeHandleNas(<<0, PDU_SESSION_ESTABLISHMENT_ACCEPT>> \o body) =>
             /\ sm_state_ue' = "SM_ACTIVE"
             /\ Len(pdu_sessions') = Len(pdu_sessions) + 1
             /\ SubSeq(pdu_sessions', 1, Len(pdu_sessions)) = pdu_sessions
             /\ pdu_sessions'[Len(pdu_sessions')].id = 1
             /\ pdu_sessions'[Len(pdu_sessions')].type = "IPv4"
             /\ pdu_sessions'[Len(pdu_sessions')].apn = ue_dnn
             /\ UNCHANGED <<mm_state, rrc_state, cm_state>>
             /\ ue_call'.ret = RetNone
             /\ rrc_sent' = << >>
             /\ nas_sent' = << >>]_vars

\* a registered, connected UE configured with the DNN "ims" has just
\* recorded its first session
C14_Witness ==
    /\ ue_call.op = "handle_nas_message"
    /\ sm_state_ue = "SM_ACTIVE"
    /\ Len(pdu_sessions) = 1
    /\ pdu_sessions[1].apn = ue_dnn
    /\ ue_dnn # DefaultDnn
    /\ mm_state = "MM_REGISTERED"
    /\ rrc_state = "RRC_CONNECTED"

\* C15 (as stated): after any sequence of inbound RRC and NAS messages the
\* UE's list of PDU session records has length at most 1.
C15_AtMostOneSession ==
    Len(pdu_sessions) <= 1

\* C16: each get_state() call increases registration_attempts by exactly 1
\* and changes none of mm_state, rrc_state, cm_state, sm_state and the PDU
\* session list; start, start_registration, handle_rrc_message,
\* handle_nas_message and get_metrics leave registration_attempts alone.
C16_GetStateCounts ==
    [][/\ UeGetState =>
             /\ registration_attempts' = registration_attempts + 1
             /\ UNCHANGED <<mm_state, rrc_state, cm_state, sm_state_ue,
                            pdu_sessions>>
       /\ ue_call'.op \in {"start", "start_registration", "handle_rrc_message",
                           "handle_nas_message", "get_metrics"} =>
             registration_attempts' = registration_attempts]_vars

\* get_metrics reports two attempts on a registered UE with a session,
\* that is after two get_state() calls
C16_Witness ==
    /\ ue_call.op = "get_metrics"
    /\ ue_call.ret.data = <<1, 2>>
    /\ registration_attempts = 2
    /\ mm_state = "MM_REGISTERED"
    /\ ue_snapshot.mm_state = "MM_REGISTERED"

\* ------------------------------------------------------------------------
\* gNB entity: decode errors and the start() lifecycle
\* ------------------------------------------------------------------------
\* C17 (as stated): a message whose type byte is not a known message type
\* is dropped: handle_ue_rrc / handle_ue_nas, which hand it to the UE's
\* handle_rrc_message / handle_nas_message, return no response, let no
\* exception escape, and leave the state of every UE and of the gNB as it
\* was.
C17_UnknownTypeDropped ==
    [][\A ue_id \in UeIds :
          (GnbHandleUeRrc(ue_id, <<1, 0>>) \/ GnbHandleUeNas(ue_id, <<0, 0>>)) =>
             /\ gnb_call'.ret = RetBytes(<< >>)
             /\ \A id \in DOMAIN ues : ues'[id] = ues[id]
             /\ UNCHANGED <<gnb_state, ngap_state, amf_connected>>]_vars

\* the messages the AMF received from the start() call numbered n
SentInStart(n) == {i \in DOMAIN amf_received : amf_received[i] = n}

C19_StartRefused ==
    /\ []((gnb_pc = "idle" /\ gnb_call.op = "start" /\ last_connect = "refused") =>
            /\ amf_connected = FALSE
            /\ gnb_state # "GNB_READY"
            /\ SentInStart(starts) = {})
    /\ [][GnbStartConnect(FALSE) => recv_tasks' = recv_tasks]_vars
    /\ [][(gnb_state' = "GNB_READY" /\ gnb_state # "GNB_READY") =>
             GnbStartReady]_vars

\* C20 (as stated): gnb_state is always one of INVALID, POWERING_ON,
\* CONFIGURATION, WAITING_FOR_N2, READY, POWERING_OFF, CONNECTION_REFUSED
\* and ngap_state one of IDLE, CONNECTING, CONNECTED, SHUTDOWN, also after
\* a failed start().
C20_StatesInRange ==
    /\ gnb_state \in {"GNB_INVALID", "GNB_POWERING_ON", "GNB_CONFIGURATION",
                      "GNB_WAITING_FOR_N2", "GNB_READY", "GNB_POWERING_OFF",
                      "GNB_CONNECTION_REFUSED"}
    /\ ngap_state \in {"NGAP_IDLE", "NGAP_CONNECTING", "NGAP_CONNECTED",
                       "NGAP_SHUTDOWN"}

\* C21 (as stated): during start() gnb_state is WAITING_FOR_N2, reached from
\* CONFIGURATION, when the transport session is opened; after a successful
\* connect the NG-Setup-Request has been sent when the receive loop is
\* started; and gnb_state becomes READY only after both.
C21_StartOrder ==
    /\ [][(gnb_state' = "GNB_WAITING_FOR_N2" /\ gnb_state # "GNB_WAITING_FOR_N2")
             => gnb_state = "GNB_CONFIGURATION"]_vars
    /\ [][(\E accept \in BOOLEAN : GnbStartConnect(accept))
             => gnb_state = "GNB_WAITING_FOR_N2"]_vars
    /\ [][Len(recv_tasks') > Len(recv_tasks) => SentInStart(starts) # {}]_vars
    /\ [][(gnb_state' = "GNB_READY" /\ gnb_state # "GNB_READY") =>
             /\ SentInStart(starts) # {}
             /\ Len(recv_tasks) = Len(amf_received)]_vars

\* C22 (as stated): when stop() has returned, gnb_state is POWERING_OFF,
\* amf_connected is false, ngap_state is IDLE, no transport session is held
\* and no receive-loop task of the gNB is still pending or running.
C22_StopReleases ==
    (gnb_pc = "idle" /\ gnb_call.op = "stop") =>
        /\ gnb_state = "GNB_POWERING_OFF"
        /\ amf_connected = FALSE
        /\ ngap_state = "NGAP_IDLE"
        /\ ngap_connection = None
        /\ \A i \in DOMAIN recv_tasks : ~Live(recv_tasks[i])

\* C23 (as stated): the transport session of a gNB entity is released, by
\* GnbSimulation.stop() or by NgapTask.stop(), only when every receive-loop
\* task of that entity has terminated, so that none is pending, suspended
\* or reading at that moment.
C23_StopAwaitsLoop ==
    /\ [][(ngap_connection # None /\ ngap_connection' = None) =>
             \A i \in DOMAIN recv_tasks : ~Live(recv_tasks[i])]_vars
    /\ [][(nt_call'.op = "stop" /\ nt_conn.sctp_socket # "none"
           /\ nt_conn'.sctp_socket = "none") =>
             \A i \in DOMAIN nt_tasks : ~Live(nt_tasks[i])]_vars

\* C24: a stop() called on an entity whose last call was a stop() that has
\* returned raises nothing and changes no variable of that entity, for
\* GnbSimulation and for NgapTask; on the NgapTask it finds no receive task
\* left to cancel.
C24_StopIdempotent ==
    /\ [][(gnb_call.op = "stop" /\ GnbStop) =>
             (gnb_call'.ret = RetNone /\ UNCHANGED gnbVars)]_vars
    /\ []((nt_call.op = "stop" /\ nt_pc = "idle") => ~ReceiveTaskLive)
    /\ [][(nt_call.op = "stop" /\ nt_pc = "idle" /\ NtStop) =>
             (nt_call'.ret = RetNone /\ UNCHANGED ngapVars)]_vars

\* an NgapTask that was started, has read and delivered a message and was
\* then stopped, its receive task cancelled: the state a second stop()
\* is called in
C24_Witness ==
    /\ nt_call.op = "stop"
    /\ nt_pc = "idle"
    /\ nt_tasks = <<"cancelled">>
    /\ nt_got # << >>
    /\ nt_conn = NewNgapConnection

\* C25 (as stated): a handle_ue_rrc or handle_ue_nas call for a ue_id that
\* is not in the UE table adds exactly that one UE to the table, a call for
\* a known ue_id adds none, and no call touches the other UEs.
C25_LazyUe ==
    [][\A ue_id \in UeIds :
          ((\E data \in RrcReadBytes : GnbHandleUeRrc(ue_id, data))
           \/ (\E data \in NasReadBytes : GnbHandleUeNas(ue_id, data))) =>
             /\ DOMAIN ues' = DOMAIN ues \cup {ue_id}
             /\ \A other \in DOMAIN ues \ {ue_id} : ues'[other] = ues[other]]_vars

\* a step is a call of one of the three message handlers of the gNB
HandlerStep ==
    \/ /\ gnb_call'.op = "handle_ngap_message"
       /\ \E data \in NgapInboundBytes : GnbHandleNgapMessage(data)
    \/ /\ gnb_call'.op = "handle_ue_rrc"
       /\ \E ue_id \in UeIds, data \in RrcReadBytes :
              GnbHandleUeRrc(ue_id, data)
    \/ /\ gnb_call'.op = "handle_ue_nas"
       /\ \E ue_id \in UeIds, data \in NasReadBytes :
              GnbHandleUeNas(ue_id, data)

\* C26: every call of handle_ue_rrc, handle_ue_nas or handle_ngap_message
\* raises messages_exchanged by exactly 1, whether the UE is known or not
\* and whatever the call returns or raises, and no other step changes the
\* counter.
C26_CountsEveryMessage ==
    [][IF HandlerStep
       THEN metrics'.messages_exchanged = metrics.messages_exchanged + 1
       ELSE metrics'.messages_exchanged = metrics.messages_exchanged]_vars

\* the counter stands at three after a call for an unknown UE that returned
\* nothing and a call that raised
C26_Witness ==
    /\ metrics.messages_exchanged = 3
    /\ gnb_call.op = "handle_ue_rrc"
    /\ gnb_call.ret = RetRaise
    /\ Cardinality(DOMAIN ues) = 1

\* C27 (as stated): the NGAP state, GnbSimulation.ngap_state as well as
\* NgapTask.state, changes only from IDLE to CONNECTING, from CONNECTING to
\* CONNECTED and, by stop(), to SHUTDOWN.
C27_NgapStateMoves ==
    /\ [][ngap_state' # ngap_state =>
             \/ ngap_state = "NGAP_IDLE" /\ ngap_state' = "NGAP_CONNECTING"
             \/ ngap_state = "NGAP_CONNECTING" /\ ngap_state' = "NGAP_CONNECTED"
             \/ gnb_call'.op = "stop" /\ ngap_state' = "NGAP_SHUTDOWN"]_vars
    /\ [][nt_state' # nt_state =>
             \/ nt_state = "idle" /\ nt_state' = "connecting"
             \/ nt_state = "connecting" /\ nt_state' = "connected"
             \/ nt_call'.op = "stop" /\ nt_state' = "shutdown"]_vars

\* the NgapConnection held in an optional field is connected
HeldConnected(held) == held # None /\ held[1].connected

\* C28: connected turns from false to true, and a socket becomes open, only
\* in the connect() of a start() call, never in a step of the receive loop
\* or in a send; and a send made while connected is false returns False and
\* the AMF receives nothing from it.
C28_NoReconnect ==
    /\ [][((~nt_conn.connected /\ nt_conn'.connected)
           \/ (nt_conn.sctp_socket # "open" /\ nt_conn'.sctp_socket = "open"))
             => (nt_pc = "connecting" /\ nt_call'.op = "start")]_vars
    /\ [][(~HeldConnected(ngap_connection) /\ HeldConnected(ngap_connection'))
             => (gnb_pc = "waiting" /\ last_connect' = "accepted")]_vars
    /\ [][(~nt_conn.connected /\ NtSendUplinkNas) =>
             (nt_call'.ret = RetBool(FALSE) /\ nt_wire' = nt_wire)]_vars

\* a send has returned False on an NgapTask that had been connected and
\* whose receive loop has ended after the disconnect
C28_Witness ==
    /\ nt_call.op = "send_uplink_nas"
    /\ nt_call.ret = RetBool(FALSE)
    /\ ~nt_conn.connected
    /\ nt_wire # << >>
    /\ nt_reads # << >>
    /\ nt_tasks = <<"returned">>

C30_LoopWaitsAndSurvives ==
    /\ [][(nt_reads' # nt_reads /\ ~HasData(nt_reads'[Len(nt_reads')])) =>
             /\ ~LoopHoldsControl'
             /\ \E i \in DOMAIN nt_tasks :
                    /\ nt_tasks'[i] = "sleeping"
                    /\ \A j \in DOMAIN nt_tasks \ {i} :
                           nt_tasks'[j] = nt_tasks[j]]_vars
    /\ [][\A i \in DOMAIN nt_tasks :
             (nt_tasks[i] # "returned" /\ nt_tasks'[i] = "returned") =>
                 ~nt_conn.connected]_vars
    /\ [][\A i \in DOMAIN recv_tasks :
             (Live(recv_tasks[i]) /\ ~Live(recv_tasks'[i])) =>
                 (ngap_connection = None \/ ~amf_connected)]_vars

\* ------------------------------------------------------------------------
\* UE handlers under the event loop: properties
\* ------------------------------------------------------------------------
\* C31: within one UE, message handling is strictly sequential: at no time
\* have two handler invocations of the UE begun and not yet returned; an
\* invocation created while another one runs (by a callback or by another
\* caller) begins only after that one has returned
C31_HandlersSequential ==
    /\ Cardinality({i \in 1..Len(h_tasks) : InHandler(h_tasks[i])}) <= 1
    /\ \A i \in 1..Len(h_tasks) : InHandler(h_tasks[i]) => h_running = i

\* a handler is inside the awaited start_pdu_session with its callback
\* installed, while a second invocation waits to begin and a third one has
\* returned
C31_Witness ==
    /\ Len(h_tasks) = 3
    /\ on_nas_message
    /\ \E i, j, k \in 1..3 :
          /\ h_tasks[i][3] = "start_pdu_session"
          /\ h_tasks[j][3] = "ready"
          /\ h_tasks[k][3] = "returned"

\* ------------------------------------------------------------------------
\* Management endpoints: properties
\* ------------------------------------------------------------------------
\* C32: invalid management operations are reported and change nothing: a
\* trigger_registration or remove_ue call made while no gNB exists, or for
\* a ue_id that is not in the UE table, is answered with an error (the 404
\* HTTPException) and leaves the gNB's state, the UE table and every UE in
\* it as they were
C32_InvalidReported ==
    [][(/\ srv_call'.n # srv_call.n
        /\ srv_call'.op \in {"trigger_registration", "remove_ue"}
        /\ (~srv_gnb \/ srv_call'.id \notin DOMAIN ues))
       => (/\ srv_call'.ret \in {NotRunning, UeNotFound}
           /\ UNCHANGED <<gnb_state, ngap_state, amf_connected, gnb_snapshot,
                          ngap_connection, ues, metrics, srv_gnb>>)]_vars

\* a started gNB holds a UE whose registration was triggered, and the last
\* call, for another ue_id, was answered "UE not found"
C32_Witness ==
    /\ srv_gnb /\ amf_connected
    /\ srv_call.op \in {"trigger_registration", "remove_ue"}
    /\ srv_call.ret = UeNotFound
    /\ srv_call.id \notin DOMAIN ues
    /\ \E id \in DOMAIN ues : ues[id].mm_state = "MM_REGISTERED_INITIATED"

\* ------------------------------------------------------------------------
\* Message containers: properties
\* ------------------------------------------------------------------------
\* C33: round trip of the message containers: an RrcMessage with a
\* transaction id in 0..3, and a NasMessage whose payload sits in the field
\* its security header selects, comes back from decode(encode(m)) as m: the
\* same transaction id or security header, the same message type and the
\* same payload bytes
C33_RoundTrip ==
    cd_out # None /\ cd_layer \in {"rrc", "nas"}
        => cd_out[1].ok /\ cd_out[1].msg = cd_msg

\* an RRC message with transaction id 3 and a two-byte payload has made the
\* round trip
C33_Witness ==
    /\ cd_layer = "rrc"
    /\ cd_msg.rrc_transaction_id = 3
    /\ cd_msg.payload = <<255, 0>>
    /\ cd_wire = Some(<<13, cd_msg.message_type, 255, 0>>)
    /\ cd_out # None

\* ------------------------------------------------------------------------
\* NasSecurity: properties
\* ------------------------------------------------------------------------
\* what encode_nas_message returns is a message with a plain header
PlainHeader(data) == Len(data) >= 2 /\ data[1] = 0

\* C34: unprotect is the inverse of protect: decode_nas_message of what
\* encode_nas_message returned for a message m yields a message with the
\* message type and the plain payload of m, and with algorithm id 0 the
\* message goes out under a plain (zero) security header
C34_UnprotectInverts ==
    /\ (cd_layer = "sec" /\ cd_out # None)
          => /\ cd_out[1].ok
             /\ cd_out[1].msg.message_type = cd_msg.message_type
             /\ cd_out[1].msg.plain_message = cd_msg.plain_message
    /\ (cd_layer = "sec" /\ cd_wire # None /\ sec_alg[2] = 0)
          => PlainHeader(cd_wire[1])

\* C35: the context's COUNT goes up by one with every encode_nas_message
\* and decode_nas_message call that returns, so that it exceeds its initial
\* value by the number of such calls made so far
C35_CountCountsCalls ==
    [][sec_ctx'.count - sec_ctx.count = sec_calls' - sec_calls]_vars

\* ------------------------------------------------------------------------
\* RrcTask: properties
\* ------------------------------------------------------------------------
\* the call just made is handle_rrc_message with an UL_INFORMATION_TRANSFER
UlTransferCall ==
    /\ rt_call'.op = "handle_rrc_message"
    /\ Len(rt_call'.data) >= 2
    /\ rt_call'.data[2] = RRC_UL_INFORMATION_TRANSFER

\* C36: RrcTask passes an UL_INFORMATION_TRANSFER through: for a known or
\* an unknown ue_id, handle_rrc_message returns the bytes that follow the
\* two header bytes, unchanged, and neither creates nor modifies a per-UE
\* record
C36_UlTransferPassThrough ==
    [][UlTransferCall
       => /\ rt_call'.ret = RetBytes(Tail2(rt_call'.data))
          /\ ue_connections' = ue_connections]_vars

\* a transfer with a three-byte NAS payload has come back for a ue_id
\* without a record, while another UE holds a connected record
C36_Witness ==
    /\ rt_call.op = "handle_rrc_message"
    /\ rt_call.data = <<5, RRC_UL_INFORMATION_TRANSFER, 126, 0, 65>>
    /\ rt_call.ret = RetBytes(<<126, 0, 65>>)
    /\ rt_call.id \notin DOMAIN ue_connections
    /\ \E id \in DOMAIN ue_connections :
          ue_connections[id].state = "connected"

\* C37: RrcTask counts a UE as connected only after both completions: in
\* every per-UE record, state "connected" implies that SETUP_COMPLETE and
\* RECONFIGURATION_COMPLETE have both been received
C37_ConnectedAfterBoth ==
    \A id \in DOMAIN ue_connections :
        ue_connections[id].state = "connected"
            => /\ ue_connections[id].setup_complete_received
               /\ ue_connections[id].reconfiguration_complete_received

\* ------------------------------------------------------------------------
\* UE connection state: properties
\* ------------------------------------------------------------------------
\* C38: in every reachable state of a UE, cm_state is CM_CONNECTED exactly
\* when rrc_state is RRC_CONNECTED, and connected_gnb_id is none whenever
\* the UE is in RRC_IDLE because of an RRC RELEASE
C38_CmFollowsRrc ==
    /\ cm_state = "CM_CONNECTED" <=> rrc_state = "RRC_CONNECTED"
    /\ idle_since \in {"release", "release_start"} => connected_gnb_id = None

\* C38, amended: cm_state is CM_CONNECTED exactly when rrc_state is
\* RRC_CONNECTED, and connected_gnb_id is none from the RRC RELEASE that
\* returned the UE to RRC_IDLE until start or start_registration is called
\* again
C38_CmFollowsRrcUntilRestart ==
    /\ cm_state = "CM_CONNECTED" <=> rrc_state = "RRC_CONNECTED"
    /\ rrc_state = "RRC_CONNECTED" <=> idle_since = "connected"
    /\ idle_since = "release" => connected_gnb_id = None

\* a UE that had started registration with a gNB and got connected has
\* been released, and a message that it ignores has arrived since
C38_Witness ==
    /\ idle_since = "release"
    /\ rrc_state = "RRC_IDLE" /\ cm_state = "CM_IDLE"
    /\ mm_state = "MM_DEREGISTERED"
    /\ connected_gnb_id = None
    /\ ue_call.op = "handle_nas_message"

\* handle_rrc_message of invocation i returns in this step, and it was
\* given an RRC RELEASE while the UE was in RRC_CONNECTED
ReleaseHandled(i) ==
    /\ i \in 1..Len(h_tasks)
    /\ h_tasks[i][1] = "rrc"
    /\ h_tasks[i][3] = "entered"
    /\ h_tasks'[i][3] = "returned"
    /\ Len(h_tasks[i][2]) >= 2
    /\ h_tasks[i][2][2] = RRC_RELEASE
    /\ rrc_state = "RRC_CONNECTED"

\* C39: a UE in RRC_CONNECTED that receives an RRC RELEASE returns no
\* response and moves rrc_state to RRC_IDLE, cm_state to CM_IDLE and
\* mm_state to MM_DEREGISTERED, and leaves sm_state and the recorded PDU
\* sessions as they were (so that SM_ACTIVE can stand without
\* MM_REGISTERED, as the witness shows)
C39_ReleaseKeepsSessions ==
    [][\A i \in 1..MaxTasks :
        ReleaseHandled(i)
          => /\ ue_call' = UeCall("handle_rrc_message", RetNone)
             /\ rrc_state' = "RRC_IDLE"
             /\ cm_state' = "CM_IDLE"
             /\ mm_state' = "MM_DEREGISTERED"
             /\ sm_state_ue' = sm_state_ue
             /\ pdu_sessions' = pdu_sessions]_vars

\* a connected UE with an active PDU session has handled a RELEASE: it is
\* idle and deregistered, and still SM_ACTIVE with the session recorded
C39_Witness ==
    /\ Len(h_tasks) = 3
    /\ h_tasks[3] = <<"rrc", <<1, RRC_RELEASE>>, "returned">>
    /\ ue_call = UeCall("handle_rrc_message", RetNone)
    /\ rrc_state = "RRC_IDLE" /\ cm_state = "CM_IDLE"
    /\ mm_state = "MM_DEREGISTERED"
    /\ sm_state_ue = "SM_ACTIVE"
    /\ Len(pdu_sessions) = 1

\* C40 (as stated): whenever no operation of the gNB is in progress,
\* amf_connected is true exactly when ngap_state is NGAP_CONNECTED, and
\* gnb_state = GNB_READY implies amf_connected.
C40_FlagsAgree ==
    gnb_pc = "idle" =>
        /\ amf_connected <=> ngap_state = "NGAP_CONNECTED"
        /\ gnb_state = "GNB_READY" => amf_connected

====
